---- MODULE Spec2Model ----
(***************************************************************************)
(* Model of the Petals seeder supervisor of torbiz-desktop                 *)
(* (src-tauri/src/petals.rs) together with the provisioning workflows of   *)
(* src-tauri/src/wsl.rs and src-tauri/src/macos.rs.                        *)
(*                                                                         *)
(* Tauri runs every `async fn` command on a multi-threaded runtime, so the *)
(* commands are modelled as threads that interleave at the granularity of  *)
(* the std::sync::Mutex critical sections of the source.                   *)
(***************************************************************************)
EXTENDS Integers, Sequences, FiniteSets, TLC

\* ---------------------------------------------------------------- bounds
NumThreads == 2       \* commands that may be in flight at the same time
MaxSpawn   == 2       \* worker processes spawned in one run of the model
MaxLines   == 1       \* lines the reader threads forward in one run of the model
MaxPolls   == 1       \* try_wait polls that find the child running before the timeout elapses

Threads   == 1..NumThreads
Pids      == 1..MaxSpawn
Platforms == {"windows", "macos", "linux"}
Models    == {"model-x"}
\* node tokens: the token of the spec's scenario (7 bytes) and one of 16 bytes
Tokens    == {"tok-123", "tok-123456789abc"}

\* petals.rs slices the token with &token[..12]
TokenPrefixLen == 12
\* petals.rs: `if logs_guard.len() > 200 { logs_guard.remove(0) }` (stdout)
StdoutLogCap == 200
\* petals.rs: `if logs_guard.len() > 500 { logs_guard.remove(0) }` (macOS stderr)
StderrLogCap == 500

VARIABLES
    platform,              \* the cfg(target_os) the binary was built for
    process,               \* PetalsState.process: 0 is None, p is Some(child p)
    model_name,            \* PetalsState.model_name: "None" or a model
    node_token,            \* PetalsState.node_token: "None" or a token
    wsl_setup_complete,    \* PetalsState.wsl_setup_complete
    macos_setup_complete,  \* PetalsState.macos_setup_complete
    seeder_logs,           \* PetalsState.seeder_logs
    process_lock,          \* holder of the PetalsState.process mutex, 0 if free
    poisoned,              \* mutexes poisoned by a panic of their holder
    child,                 \* OS state of each spawned child process
    inner,                 \* Windows only: the python process inside WSL
    out_read,              \* lines the stdout reader thread of a child has forwarded
    err_read,              \* macOS only: lines the stderr reader thread has forwarded
    cmdline,               \* the --node-token each child was spawned with
    call,                  \* the command each thread is inside, with its locals
    ret,                   \* what the step just taken answered to the caller of a
                           \* supervisor command (start, stop, is_running, get_info)
    setup_succeeded,       \* a provisioning workflow has returned Ok on this machine
    emitted,               \* events sent to the front end (app_handle.emit), in order;
                           \* recorded by the specifications of the event streams
    read_lines,            \* lines the reader threads have taken from the worker's pipes
    inference_process,     \* InferenceState.process: 0 is None, p is Some(child p)
    setup_run,             \* the provisioning workflow run just made: what the machine
                           \* answered, what was emitted and executed, what it returned
    gpu_info,              \* get_hardware_info().gpu_info as start_petals_seeder saw it
    device,                \* the --device token start_petals_seeder passes to the worker
    stderr_reader,         \* locals of the macOS stderr reader thread: in_traceback,
                           \* error_buffer, and whether its stream has ended
    pipes,                 \* the stdout and stderr pipes between each worker and the
                           \* supervisor: lines waiting in them, and the worker's writes
    printed,               \* what the supervisor has written to its own stdout/stderr
                           \* (println!, eprintln!)
    locks                  \* the PetalsState mutexes as the specification of the
                           \* lock order records them: the holder of each (0: free)
                           \* and the lock and unlock steps each thread has before it

state == <<process, model_name, node_token, wsl_setup_complete,
           macos_setup_complete, seeder_logs>>
os    == <<child, inner, out_read, err_read, cmdline>>
\* what the seeder commands of the supervisor neither read nor write
aside == <<emitted, read_lines, inference_process, setup_run, gpu_info, device,
           stderr_reader, pipes, printed, locks>>
vars  == <<platform, process, model_name, node_token, wsl_setup_complete,
           macos_setup_complete, seeder_logs, process_lock, poisoned,
           child, inner, out_read, err_read, cmdline, call, ret,
           setup_succeeded, emitted, read_lines, inference_process,
           setup_run, gpu_info, device, stderr_reader, pipes, printed, locks>>

\* ------------------------------------------------------------ PetalsState
Idle == [op |-> "none", pc |-> "idle", model |-> "None", token |-> "None",
         child |-> 0, polls |-> 0, wait_err |-> FALSE, sntp |-> "none"]
NoReturn == [op |-> "none", val |-> "none"]
\* no workflow has run yet
NoRun == [workflow |-> "none", machine |-> <<>>, trace |-> <<>>, result |-> "none"]

\* Stdio::piped(): both pipes empty, the worker has written nothing yet
PipeNew == [out |-> 0, err |-> 0, wrote |-> 0, blocked |-> "none"]

\* the mutexes of PetalsState that the seeder commands lock
Mutexes == {"process", "model_name", "node_token", "seeder_logs"}

\* every mutex free, no thread inside a command
LocksNew == [owner |-> [m \in Mutexes |-> 0], rest |-> [t \in Threads |-> <<>>]]

\* let mut error_buffer = Vec::new(); let mut in_traceback = false;
StderrReaderNew == [in_traceback |-> FALSE, error_buffer |-> <<>>, ended |-> FALSE]

\* PetalsState::new()
PetalsStateNew ==
    /\ process = 0
    /\ model_name = "None"
    /\ node_token = "None"
    /\ wsl_setup_complete = FALSE
    /\ macos_setup_complete = FALSE
    /\ seeder_logs = <<>>

Init ==
    /\ platform \in Platforms
    /\ PetalsStateNew
    /\ process_lock = 0
    /\ poisoned = {}
    /\ child = [p \in Pids |-> "none"]
    /\ inner = [p \in Pids |-> "none"]
    /\ out_read = [p \in Pids |-> 0]
    /\ err_read = [p \in Pids |-> 0]
    /\ cmdline = [p \in Pids |-> "None"]
    /\ call = [t \in Threads |-> Idle]
    /\ ret = NoReturn
    /\ setup_succeeded = FALSE
    /\ emitted = <<>>
    /\ read_lines = <<>>
    /\ inference_process = 0
    /\ setup_run = NoRun
    /\ gpu_info = <<>>
    /\ device = "none"
    /\ stderr_reader = StderrReaderNew
    /\ pipes = [p \in Pids |-> PipeNew]
    /\ printed = {}
    /\ locks = LocksNew

\* the command op of thread t returns val: its locals are dropped
Returns(t, op, val) ==
    /\ call' = [call EXCEPT ![t] = Idle]
    /\ ret' = [NoReturn EXCEPT !.op = op, !.val = val]
\* lock().unwrap() on a poisoned mutex, or a slice out of range: the task
\* unwinds and the command never answers
Panics(t, op) == Returns(t, op, "panic")
\* the command goes on with the locals rec
Continues(t, rec) ==
    /\ call' = [call EXCEPT ![t] = rec]
    /\ ret' = NoReturn

At(t, label) == call[t].pc = label
\* a thread that is not inside a command can take the next one
Free(t) == call[t].pc = "idle"

\* Mutex::lock blocks while another thread holds the guard
ProcessLockFree == process_lock = 0

\* the next child the OS hands out
Spawned == {p \in Pids : child[p] # "none"}
CanSpawn == Cardinality(Spawned) < MaxSpawn
NewPid == Cardinality(Spawned) + 1

\* ------------------------------------------------------- the OS and threads
\* a worker exits on its own (crash, normal end, or a delivered SIGTERM);
\* on Windows the child is the `wsl -e bash -c` wrapper, which ends when the
\* python process inside WSL has ended
ChildExits(p) ==
    /\ child[p] = "running"
    /\ platform = "windows" => inner[p] = "dead"
    /\ child' = [child EXCEPT ![p] = "exited"]
    /\ UNCHANGED <<platform, state, process_lock, poisoned, inner, out_read,
                   err_read, cmdline, call, setup_succeeded>>
    /\ ret' = NoReturn
    /\ UNCHANGED aside

InnerExits(p) ==
    /\ platform = "windows"
    /\ inner[p] = "running"
    /\ inner' = [inner EXCEPT ![p] = "dead"]
    /\ UNCHANGED <<platform, state, process_lock, poisoned, child, out_read,
                   err_read, cmdline, call, setup_succeeded>>
    /\ ret' = NoReturn
    /\ UNCHANGED aside

RECURSIVE SumTo(_, _)
SumTo(f, n) == IF n = 0 THEN 0 ELSE f[n] + SumTo(f, n - 1)
\* lines forwarded so far by all reader threads
LinesRead == SumTo(out_read, MaxSpawn) + SumTo(err_read, MaxSpawn)

\* logs_guard.push(line); if logs_guard.len() > cap { logs_guard.remove(0) }
PushLog(logs, line, cap) ==
    LET pushed == Append(logs, line)
    IN  IF Len(pushed) > cap THEN Tail(pushed) ELSE pushed

\* the stdout reader thread of child p forwards its next line
StdoutReader(p) ==
    /\ child[p] # "none"
    /\ LinesRead < MaxLines
    /\ out_read' = [out_read EXCEPT ![p] = @ + 1]
    /\ seeder_logs' = PushLog(seeder_logs, <<p, "out", out_read[p] + 1>>, StdoutLogCap)
    /\ UNCHANGED <<platform, process, model_name, node_token, wsl_setup_complete,
                   macos_setup_complete, process_lock, poisoned, child, inner,
                   err_read, cmdline, call, setup_succeeded>>
    /\ ret' = NoReturn
    /\ UNCHANGED aside

\* macOS only: the stderr reader thread stores "[STDERR] " + line
StderrReader(p) ==
    /\ platform = "macos"
    /\ child[p] # "none"
    /\ LinesRead < MaxLines
    /\ err_read' = [err_read EXCEPT ![p] = @ + 1]
    /\ seeder_logs' = PushLog(seeder_logs, <<p, "err", err_read[p] + 1>>, StderrLogCap)
    /\ UNCHANGED <<platform, process, model_name, node_token, wsl_setup_complete,
                   macos_setup_complete, process_lock, poisoned, child, inner,
                   out_read, cmdline, call, setup_succeeded>>
    /\ ret' = NoReturn
    /\ UNCHANGED aside

\* ------------------------------------------------- start_petals_seeder
\* { let process_guard = state.process.lock().unwrap();
\*   if process_guard.is_some() { return Err("... already running.") } }
StartCheck(t, m, k) ==
    /\ Free(t)
    /\ ProcessLockFree
    /\ IF "process" \in poisoned THEN Panics(t, "start")
       ELSE IF process # 0 THEN Returns(t, "start", "AlreadyRunning")
       ELSE Continues(t, [Idle EXCEPT !.op = "start", !.pc = "s_spawn",
                                      !.model = m, !.token = k])
    /\ UNCHANGED <<platform, state, process_lock, poisoned, os, setup_succeeded>>
    /\ UNCHANGED aside

\* a start_petals_seeder that reads no readiness flag on any platform
SetupReadyUnread == TRUE

\* the readiness flag start_petals_seeder reads on this platform:
\*   cfg(windows): *state.wsl_setup_complete.lock().unwrap()
\*   cfg(macos):   *state.macos_setup_complete.lock().unwrap()
\*   cfg(all(not(windows), not(macos))): none is read
SetupReady ==
    CASE platform = "windows" -> wsl_setup_complete
      [] platform = "macos"   -> macos_setup_complete
      [] OTHER                -> TRUE

\* how `sntp -sS time.apple.com` can end: exit status 0, another exit
\* status, or the command cannot be run at all
SntpOutcomes == {"synced", "refused", "absent"}

\* sync_macos_time: every arm of its match ends in Ok(())
SyncMacosTime(sntp) ==
    CASE sntp = "synced"  -> "Ok"
      [] sntp = "refused" -> "Ok"
      [] sntp = "absent"  -> "Ok"

\* cfg(macos): start_petals_seeder calls sync_macos_time() before it spawns;
\* the other builds have no such call
StartSyncs == IF platform = "macos" THEN SntpOutcomes ELSE {"none"}

\* what can go wrong between the readiness check and the spawn
StartFailures ==
    {"ScriptNotFound", "SpawnFailed"} \cup
    (IF platform = "windows" THEN {"CopyScriptFailed"} ELSE {})

\* a start that stores the model name before it has a child
StartFailsModelStored(t, e) ==
    /\ Returns(t, "start", e)
    /\ model_name' = call[t].model
    /\ UNCHANGED <<process, node_token, wsl_setup_complete, macos_setup_complete,
                   seeder_logs, os>>

\* return Err(format!("Python script not found at: ...")), copy_script_to_wsl(..)?,
\* .spawn().map_err(..)?: the Err leaves before any guard of the commit block
\* is taken and before a child or a reader thread exists
StartFails(t, e) == Returns(t, "start", e) /\ UNCHANGED <<state, os>>

\* if !wsl_ready { return Err("... not set up ...") }  (if !macos_ready ...);
\* (macOS: sync_macos_time(), an Err of it only printed);
\* then resolve the script, (Windows: copy it into WSL, restart WSL), pick
\* the device, spawn the child with piped stdout/stderr, start its readers.
\* The flag is read under its own mutex and nothing between that read and
\* the spawn touches PetalsState, so the two are one step.
StartSpawn(t) ==
    /\ At(t, "s_spawn")
    /\ IF ~SetupReady
       THEN Returns(t, "start", "NotProvisioned") /\ UNCHANGED <<state, os>>
       ELSE \/ \E e \in StartFailures : StartFails(t, e)
            \/ /\ CanSpawn
               /\ UNCHANGED state
               /\ child' = [child EXCEPT ![NewPid] = "running"]
               /\ inner' = [inner EXCEPT ![NewPid] =
                              IF platform = "windows" THEN "running" ELSE "none"]
               /\ cmdline' = [cmdline EXCEPT ![NewPid] =
                              IF platform = "windows" THEN call[t].token ELSE "None"]
               /\ \E sntp \in StartSyncs :
                    Continues(t, [call[t] EXCEPT !.pc = "s_commit", !.child = NewPid,
                                                 !.sntp = sntp])
               /\ UNCHANGED <<out_read, err_read>>
    /\ UNCHANGED <<platform, process_lock, poisoned, setup_succeeded>>
    /\ UNCHANGED aside

\* { *process_guard = Some(child); *model_guard = Some(model_name);
\*   *token_guard = Some(node_token); }   each guard taken with lock().unwrap()
StartCommit(t) ==
    /\ At(t, "s_commit")
    /\ ProcessLockFree
    /\ IF "process" \in poisoned
       THEN /\ Panics(t, "start")
            /\ UNCHANGED <<process, model_name, node_token, poisoned>>
       ELSE /\ process' = call[t].child
            /\ IF "model_name" \in poisoned
               THEN /\ Panics(t, "start")
                    /\ poisoned' = poisoned \cup {"process"}
                    /\ UNCHANGED <<model_name, node_token>>
               ELSE /\ model_name' = call[t].model
                    /\ IF "node_token" \in poisoned
                       THEN /\ Panics(t, "start")
                            /\ poisoned' = poisoned \cup {"process", "model_name"}
                            /\ UNCHANGED node_token
                       ELSE /\ node_token' = call[t].token
                            /\ Returns(t, "start", "Ok")
                            /\ UNCHANGED poisoned
    /\ UNCHANGED <<platform, wsl_setup_complete, macos_setup_complete, seeder_logs,
                   process_lock, os, setup_succeeded>>
    /\ UNCHANGED aside

\* -------------------------------------------------- stop_petals_seeder
\* line.contains(sub) / the regex `.*sub` of pkill -f and pgrep -f
Contains(str, sub) ==
    \E i \in 1..(Len(str) - Len(sub) + 1) : SubSeq(str, i, i + Len(sub) - 1) = sub

\* &token[..12] panics when the token has fewer than 12 bytes
CanSlice(token) == Len(token) >= TokenPrefixLen
TokenPrefix(token) == SubSeq(token, 1, TokenPrefixLen)

\* the python processes inside WSL that
\* pgrep -f 'python3.*run_petals_seeder.py.*{prefix}' finds
InnerMatches(prefix) ==
    {q \in Pids : inner[q] = "running" /\ Contains(cmdline[q], prefix)}

\* the lookups of stop_petals_seeder panic on a poisoned node_token mutex
\* and on a stored token that &token[..12] cannot slice
LookupPanics ==
    "node_token" \in poisoned \/ (node_token # "None" /\ ~CanSlice(node_token))

\* a panic while node_token_guard and process_guard are alive poisons both
\* mutexes and releases them
PoisonedByStop ==
    poisoned \cup (IF "node_token" \in poisoned THEN {"process"}
                   ELSE {"process", "node_token"})

\* a None arm that answers Ok, as stop_inference does when nothing is stored
StopNoneArmOk(t) == Returns(t, "stop", "Ok")

\* None => Err("No Petals seeder process is running")
StopNoneArm(t) == Returns(t, "stop", "NotRunning")

\* let model_name = state.model_name.lock().unwrap().clone();   (kept for the
\*     notification only)
\* let mut process_guard = state.process.lock().unwrap();
\* match process_guard.as_mut() {
\*   None => Err("No Petals seeder process is running"),
\*   Some(child) =>
\*     cfg(unix):    kill(child.id(), SIGTERM), errors only logged; whether
\*                   and when the worker obeys is ChildExits
\*     cfg(windows): with the node_token guard held, pkill -TERM / sleep 3 s
\*                   / pgrep / pkill -9 on the inner process, every command
\*                   through execute_wsl_command (which may fail); then
\*                   child.kill() on the wrapper
\* The guard of the Some arm lives until drop(process_guard).
StopSignal(t) ==
    /\ Free(t)
    /\ ProcessLockFree
    /\ IF "model_name" \in poisoned \/ "process" \in poisoned
       THEN Panics(t, "stop") /\ UNCHANGED <<process_lock, poisoned, os>>
       ELSE IF process = 0
       THEN StopNoneArm(t) /\ UNCHANGED <<process_lock, poisoned, os>>
       ELSE IF platform # "windows"
       THEN /\ Continues(t, [Idle EXCEPT !.op = "stop", !.pc = "t_wait",
                                         !.child = process])
            /\ process_lock' = t
            /\ UNCHANGED <<poisoned, os>>
       ELSE IF LookupPanics
       THEN /\ Panics(t, "stop")
            /\ poisoned' = PoisonedByStop
            /\ UNCHANGED <<process_lock, os>>
       ELSE /\ \E killed \in SUBSET (IF node_token = "None" THEN {}
                                     ELSE InnerMatches(TokenPrefix(node_token))) :
                 inner' = [q \in Pids |-> IF q \in killed THEN "dead" ELSE inner[q]]
            /\ child' = [child EXCEPT ![process] = IF @ = "running" THEN "exited" ELSE @]
            /\ Continues(t, [Idle EXCEPT !.op = "stop", !.pc = "t_wait",
                                         !.child = process])
            /\ process_lock' = t
            /\ UNCHANGED <<poisoned, out_read, err_read, cmdline>>
    /\ UNCHANGED <<platform, state, setup_succeeded>>
    /\ UNCHANGED aside

\* loop { match child.try_wait() {
\*   Ok(Some(_)) => break,
\*   Ok(None)    => if start.elapsed() > timeout { kill(); wait(); break } sleep(100ms),
\*   Err(_)      => { kill(); break } } }
StopWait(t) ==
    LET p == call[t].child IN
    /\ At(t, "t_wait")
    /\ \/ /\ child[p] \in {"exited", "reaped"}                   \* Ok(Some(status))
          /\ child' = [child EXCEPT ![p] = "reaped"]
          /\ Continues(t, [call[t] EXCEPT !.pc = "t_unset", !.polls = 0])
       \/ /\ child[p] = "running"                                \* Ok(None), no timeout yet
          /\ call[t].polls < MaxPolls
          /\ Continues(t, [call[t] EXCEPT !.polls = @ + 1])
          /\ UNCHANGED child
       \/ /\ child[p] = "running"                                \* Ok(None), timed out
          /\ call[t].polls = MaxPolls
          /\ child' = [child EXCEPT ![p] = "reaped"]
          /\ Continues(t, [call[t] EXCEPT !.pc = "t_unset", !.polls = 0])
       \/ /\ child' = [child EXCEPT ![p] = IF @ = "running" THEN "exited" ELSE @]
          /\ Continues(t, [call[t] EXCEPT !.pc = "t_unset", !.polls = 0,     \* Err(e)
                                          !.wait_err = TRUE])
    /\ UNCHANGED <<platform, state, process_lock, poisoned, inner, out_read,
                   err_read, cmdline, setup_succeeded>>
    /\ UNCHANGED aside

\* cfg(windows): the second lookup, pgrep and pkill -9 if it printed a pid;
\* then, on every platform,  *process_guard = None; drop(process_guard);
StopUnset(t) ==
    /\ At(t, "t_unset")
    /\ process_lock' = 0
    /\ IF platform = "windows" /\ LookupPanics
       THEN /\ Panics(t, "stop")
            /\ poisoned' = PoisonedByStop
            /\ UNCHANGED <<process, inner>>
       ELSE /\ \E found \in {{}} \cup
                     {IF platform # "windows" \/ node_token = "None" THEN {}
                      ELSE InnerMatches(TokenPrefix(node_token))} :
                 inner' = [q \in Pids |-> IF q \in found THEN "dead" ELSE inner[q]]
            /\ process' = 0
            /\ Continues(t, [call[t] EXCEPT !.pc = "t_clear"])
            /\ UNCHANGED poisoned
    /\ UNCHANGED <<platform, model_name, node_token, wsl_setup_complete,
                   macos_setup_complete, seeder_logs, child, out_read, err_read,
                   cmdline, setup_succeeded>>
    /\ UNCHANGED aside

\* { *model_guard = None; *token_guard = None; logs_guard.clear(); }
\* then the notification and Ok("Petals seeder stopped successfully")
StopClear(t) ==
    /\ At(t, "t_clear")
    /\ IF "model_name" \in poisoned
       THEN /\ Panics(t, "stop")
            /\ UNCHANGED <<model_name, node_token, seeder_logs, poisoned>>
       ELSE /\ model_name' = "None"
            /\ IF "node_token" \in poisoned
               THEN /\ Panics(t, "stop")
                    /\ poisoned' = poisoned \cup {"model_name"}
                    /\ UNCHANGED <<node_token, seeder_logs>>
               ELSE /\ node_token' = "None"
                    /\ seeder_logs' = <<>>
                    /\ Returns(t, "stop", "Ok")
                    /\ UNCHANGED poisoned
    /\ UNCHANGED <<platform, process, wsl_setup_complete, macos_setup_complete,
                   process_lock, os, setup_succeeded>>
    /\ UNCHANGED aside

\* -------------------------- is_petals_seeder_running, get_petals_seeder_info
\* get_petals_seeder_info starts by awaiting is_petals_seeder_running
Queries == {"is_running", "get_info"}

\* Ok(true) of is_petals_seeder_running; in get_petals_seeder_info it leads
\* to the read of model_name
AnswerRunning(t, op) ==
    IF op = "is_running" THEN Returns(t, op, "true")
    ELSE Continues(t, [Idle EXCEPT !.op = op, !.pc = "g_read"])
\* Ok(false) of is_petals_seeder_running; Ok(None) of get_petals_seeder_info
AnswerNotRunning(t, op) ==
    Returns(t, op, IF op = "is_running" THEN "false" ELSE "None")

\* match process_guard.as_mut() {
\*   Some(child) => match child.try_wait() {
\*       Ok(Some(_)) => { *process_guard = None; drop(process_guard); ... Ok(false) }
\*       Ok(None) => Ok(true), Err(_) => Ok(true) },
\*   None => Ok(false) }
RunningPoll(t, op) ==
    /\ Free(t)
    /\ ProcessLockFree
    /\ IF "process" \in poisoned
       THEN Panics(t, op) /\ UNCHANGED <<process, child>>
       ELSE IF process = 0
       THEN AnswerNotRunning(t, op) /\ UNCHANGED <<process, child>>
       ELSE \/ /\ child[process] \in {"exited", "reaped"}            \* Ok(Some(_))
               /\ child' = [child EXCEPT ![process] = "reaped"]
               /\ process' = 0
               /\ Continues(t, [Idle EXCEPT !.op = op, !.pc = "r_clear"])
            \/ /\ child[process] = "running"                         \* Ok(None)
               /\ AnswerRunning(t, op)
               /\ UNCHANGED <<process, child>>
            \/ /\ AnswerRunning(t, op)                               \* Err(_)
               /\ UNCHANGED <<process, child>>
    /\ UNCHANGED <<platform, model_name, node_token, wsl_setup_complete,
                   macos_setup_complete, seeder_logs, process_lock, poisoned,
                   inner, out_read, err_read, cmdline, setup_succeeded>>
    /\ UNCHANGED aside

\* { *model_guard = None; *token_guard = None; }  Ok(false)
RunningClear(t) ==
    /\ At(t, "r_clear")
    /\ IF "model_name" \in poisoned
       THEN /\ Panics(t, call[t].op)
            /\ UNCHANGED <<model_name, node_token, poisoned>>
       ELSE /\ model_name' = "None"
            /\ IF "node_token" \in poisoned
               THEN /\ Panics(t, call[t].op)
                    /\ poisoned' = poisoned \cup {"model_name"}
                    /\ UNCHANGED node_token
               ELSE /\ node_token' = "None"
                    /\ AnswerNotRunning(t, call[t].op)
                    /\ UNCHANGED poisoned
    /\ UNCHANGED <<platform, process, wsl_setup_complete, macos_setup_complete,
                   seeder_logs, process_lock, os, setup_succeeded>>
    /\ UNCHANGED aside

\* let model_guard = state.model_name.lock().unwrap(); Ok(model_guard.clone())
InfoRead(t) ==
    /\ At(t, "g_read")
    /\ IF "model_name" \in poisoned THEN Panics(t, "get_info")
       ELSE Returns(t, "get_info", model_name)
    /\ UNCHANGED <<platform, state, process_lock, poisoned, os, setup_succeeded>>
    /\ UNCHANGED aside

\* ------------------------------------------------ get_petals_seeder_logs
\* Ok(logs_guard.clone()): a snapshot of seeder_logs, nothing is written
GetLogs(t) ==
    /\ Free(t)
    /\ UNCHANGED call
    /\ ret' = NoReturn
    /\ UNCHANGED <<platform, state, process_lock, poisoned, os, setup_succeeded>>
    /\ UNCHANGED aside

\* --------------------- mark_wsl_setup_complete, mark_macos_setup_complete
\* a mark command that flips the flag instead of setting it
MarkWslSetupToggle(t) ==
    /\ Free(t)
    /\ wsl_setup_complete' = ~wsl_setup_complete
    /\ UNCHANGED call
    /\ ret' = NoReturn
    /\ UNCHANGED <<platform, process, model_name, node_token, macos_setup_complete,
                   seeder_logs, process_lock, poisoned, os, setup_succeeded>>
    /\ UNCHANGED aside

\* *setup_guard = true
MarkWslSetupComplete(t) ==
    /\ Free(t)
    /\ wsl_setup_complete' = TRUE
    /\ UNCHANGED call
    /\ ret' = NoReturn
    /\ UNCHANGED <<platform, process, model_name, node_token, macos_setup_complete,
                   seeder_logs, process_lock, poisoned, os, setup_succeeded>>
    /\ UNCHANGED aside

\* *setup_guard = true
MarkMacosSetupComplete(t) ==
    /\ Free(t)
    /\ macos_setup_complete' = TRUE
    /\ UNCHANGED call
    /\ ret' = NoReturn
    /\ UNCHANGED <<platform, process, model_name, node_token, wsl_setup_complete,
                   seeder_logs, process_lock, poisoned, os, setup_succeeded>>
    /\ UNCHANGED aside

\* ------------------------------------------------ provisioning workflows
\* emit_progress(stage, _, progress)
Ev(stage, progress) == <<[stage |-> stage, progress |-> progress]>>
WorkflowRun(events, result) == [events |-> events, result |-> result]

\* setup_wsl_environment / setup_wsl_environment_client on Windows; the two
\* differ in the library probe and installer they call, not in their stages.
\* Arguments: check_wsl_installed(), install_wsl() is Ok, check_wsl_python(),
\* install_wsl_python() is Ok, check_wsl_petals*(), install_wsl_petals*() is Ok
WslWorkflow(wsl, wslInstalls, python, pythonInstalls, petals, petalsInstalls) ==
    LET e1 == Ev("checking_wsl", 10)
        e2 == e1 \o Ev("checking_python", 50)
        e3 == (IF python THEN e2 ELSE e2 \o Ev("installing_python", 60))
                 \o Ev("checking_petals", 70)
        e4 == IF petals THEN e3 ELSE e3 \o Ev("installing_petals", 80)
    IN  IF ~wsl
        THEN IF ~wslInstalls
             THEN WorkflowRun(e1 \o Ev("installing_wsl", 20), "InstallFailed")
             ELSE WorkflowRun(e1 \o Ev("installing_wsl", 20) \o Ev("wsl_installed", 40),
                              "RestartRequired")
        ELSE IF ~python /\ ~pythonInstalls
        THEN WorkflowRun(e2 \o Ev("installing_python", 60), "InstallFailed")
        ELSE IF ~petals /\ ~petalsInstalls
        THEN WorkflowRun(e4, "InstallFailed")
        ELSE WorkflowRun(e4 \o Ev("configuring_wsl", 90) \o Ev("complete", 100), "Ok")

WslRuns ==
    {WslWorkflow(a, b, c, d, e, f) : a, b, c, d, e, f \in BOOLEAN}

\* setup_macos_environment on macOS.  Arguments: check_docker_installed(),
\* check_docker_desktop_running(), check_docker_running(),
\* check_python3_installed(), check_homebrew_installed(), `brew install` ok,
\* check_petals_installed(), install_petals_macos() is Ok, app_config_dir
\* resolves, check_docker_image_exists(), build_docker_image() is Ok.
\* sync_macos_time() is called before "complete" and its error is dropped.
MacosWorkflow(docker, desktop, daemon, python, brew, brewInstalls, petals, petalsInstalls, appDir, image, builds) ==
    LET e1 == Ev("checking_docker", 10)
        e2 == e1 \o Ev("docker_ok", 25) \o Ev("checking_docker_running", 30)
                 \o (IF desktop THEN <<>> ELSE Ev("docker_not_running", 32))
        e3 == e2 \o Ev("docker_running", 40) \o Ev("checking_python", 50)
        e4 == e3 \o Ev("checking_homebrew", 55)
        e5 == (IF python THEN e3 ELSE e4 \o Ev("installing_python", 60))
                 \o Ev("python_ok", 70) \o Ev("checking_petals", 75)
        e6 == e5 \o Ev("installing_petals", 80)
        e7 == (IF petals THEN e5 ELSE e6 \o Ev("verifying_petals", 85))
                 \o Ev("checking_docker_image", 88)
        e8 == e7 \o Ev("building_docker_image", 90)
        e9 == (IF image THEN e7 ELSE e8) \o Ev("docker_image_ready", 95)
                 \o Ev("sync_time", 97) \o Ev("complete", 100)
    IN  IF ~docker THEN WorkflowRun(e1 \o Ev("docker_missing", 15), "DockerMissing")
        ELSE IF ~daemon
        THEN WorkflowRun(e2 \o Ev("docker_not_running", 35), "DockerNotRunning")
        ELSE IF ~python /\ ~brew THEN WorkflowRun(e4, "HomebrewMissing")
        ELSE IF ~python /\ ~brewInstalls
        THEN WorkflowRun(e4 \o Ev("installing_python", 60), "InstallFailed")
        ELSE IF ~petals /\ ~petalsInstalls THEN WorkflowRun(e6, "InstallFailed")
        ELSE IF ~appDir THEN WorkflowRun(e7, "NoProjectRoot")
        ELSE IF ~image /\ ~builds THEN WorkflowRun(e8, "BuildFailed")
        ELSE WorkflowRun(e9, "Ok")

MacosRuns ==
    {MacosWorkflow(a, b, c, d, e, f, g, h, i, j, k) :
        a, b, c, d, e, f, g, h, i, j, k \in BOOLEAN}

\* the cfg(not(target_os = ...)) arm: Err at once, nothing emitted
WrongPlatform == WorkflowRun(<<>>, "WrongPlatform")

Workflows == {"setup_wsl", "setup_wsl_client", "setup_macos"}
RunsOf(w) ==
    IF w = "setup_macos"
    THEN (IF platform = "macos" THEN MacosRuns ELSE {WrongPlatform})
    ELSE (IF platform = "windows" THEN WslRuns ELSE {WrongPlatform})

\* a workflow that is handed the PetalsState and sets the readiness flag of
\* its platform when it returns Ok
RunSetupMarksReady(t, w) ==
    /\ Free(t)
    /\ \E result \in {run.result : run \in RunsOf(w)} :
         /\ setup_succeeded' = (setup_succeeded \/ result = "Ok")
         /\ wsl_setup_complete' =
                (wsl_setup_complete \/ (platform = "windows" /\ result = "Ok"))
         /\ macos_setup_complete' =
                (macos_setup_complete \/ (platform = "macos" /\ result = "Ok"))
         /\ UNCHANGED call
         /\ ret' = NoReturn
    /\ UNCHANGED <<platform, process, model_name, node_token, seeder_logs,
                   process_lock, poisoned, os>>
    /\ UNCHANGED aside

\* one run of setup_wsl_environment, setup_wsl_environment_client or
\* setup_macos_environment; none of them is handed the PetalsState
RunSetup(t, w) ==
    /\ Free(t)
    /\ \E result \in {run.result : run \in RunsOf(w)} :
         /\ setup_succeeded' = (setup_succeeded \/ result = "Ok")
         /\ UNCHANGED call
         /\ ret' = NoReturn
    /\ UNCHANGED <<platform, state, process_lock, poisoned, os>>
    /\ UNCHANGED aside

\* ------------------------------------------------------------------ Next
Next ==
    \/ \E t \in Threads, m \in Models, k \in Tokens : StartCheck(t, m, k)
    \/ \E t \in Threads : StartSpawn(t)
    \/ \E t \in Threads : StartCommit(t)
    \/ \E t \in Threads : StopSignal(t)
    \/ \E t \in Threads : StopWait(t)
    \/ \E t \in Threads : StopUnset(t)
    \/ \E t \in Threads : StopClear(t)
    \/ \E t \in Threads, op \in Queries : RunningPoll(t, op)
    \/ \E t \in Threads : RunningClear(t)
    \/ \E t \in Threads : InfoRead(t)
    \/ \E t \in Threads : GetLogs(t)
    \/ \E t \in Threads : MarkWslSetupComplete(t)
    \/ \E t \in Threads : MarkMacosSetupComplete(t)
    \/ \E t \in Threads, w \in Workflows : RunSetup(t, w)
    \/ \E p \in Pids : ChildExits(p)
    \/ \E p \in Pids : InnerExits(p)
    \/ \E p \in Pids : StdoutReader(p)
    \/ \E p \in Pids : StderrReader(p)

Spec == Init /\ [][Next]_vars

\* ------------------------------------------- the log buffer and its caps
\* lines the readers take from the pipes in one run of CapSpec
MaxAppends == 501

\* In CapSpec a line is represented by its position in the order the readers
\* took lines from the pipes; its text (and the "[STDERR] " prefix the stderr
\* reader puts before it) is not represented.
NextLineNo == Len(read_lines) + 1

\* the stdout reader's  { let mut logs_guard = logs.lock().unwrap();
\*   logs_guard.push(line.clone());
\*   if logs_guard.len() > 200 { logs_guard.remove(0); } }
StdoutPush ==
    /\ Len(read_lines) < MaxAppends
    /\ read_lines' = Append(read_lines, NextLineNo)
    /\ seeder_logs' = PushLog(seeder_logs, NextLineNo, StdoutLogCap)
    /\ ret' = NoReturn
    /\ UNCHANGED <<platform, process, model_name, node_token, wsl_setup_complete,
                   macos_setup_complete, process_lock, poisoned, os, call,
                   setup_succeeded, emitted, inference_process, setup_run,
                   gpu_info, device,
                   stderr_reader, pipes, printed, locks>>

\* macOS only, the stderr reader's  { ... logs_guard.push(formatted_line);
\*   if logs_guard.len() > 500 { logs_guard.remove(0); } }
StderrPush ==
    /\ platform = "macos"
    /\ Len(read_lines) < MaxAppends
    /\ read_lines' = Append(read_lines, NextLineNo)
    /\ seeder_logs' = PushLog(seeder_logs, NextLineNo, StderrLogCap)
    /\ ret' = NoReturn
    /\ UNCHANGED <<platform, process, model_name, node_token, wsl_setup_complete,
                   macos_setup_complete, process_lock, poisoned, os, call,
                   setup_succeeded, emitted, inference_process, setup_run,
                   gpu_info, device,
                   stderr_reader, pipes, printed, locks>>

CapNext ==
    \/ StdoutPush
    \/ StderrPush
    \/ \E t \in Threads : GetLogs(t)

CapSpec == Init /\ [][CapNext]_vars

\* ------------------------------------- the stdout reader and its events
\* stdout lines the reader takes in one run of LogSpec
MaxLogLines == 3

\* lines a worker can print, one for each way the classifier can go
LogLines ==
    {"Connecting to the DHT...",
     "local time must be within 2 minutes",
     "[ERROR] local time must be within 2 minutes",
     "[ERROR] triton kernels not available",
     "[ERROR] out of memory",
     "Loading model blocks",
     "Loaded 4 blocks",
     "Announced that blocks 0:4 are joining",
     "hello"}

\* the banner of the worker script; "*" stands for U+2713, which a string of
\* this module cannot hold
SuccessBanner == "*** MODEL LOADED SUCCESSFULLY ***"

\* let is_error = line.contains("[ERROR]") && !line.contains("triton");
IsError(line) == Contains(line, "[ERROR]") /\ ~Contains(line, "triton")
\* let is_time_error = line.contains("local time must be within")
\*                      || line.contains("TIME SYNC ERROR");    (cfg(windows) only)
IsTimeError(line) ==
    Contains(line, "local time must be within") \/ Contains(line, "TIME SYNC ERROR")
\* let is_success = line.contains(banner) || line.contains("Loaded") && line.contains("block");
IsSuccess(line) ==
    Contains(line, SuccessBanner) \/ (Contains(line, "Loaded") /\ Contains(line, "block"))
\* let is_connecting = line.contains("Connecting to") || line.contains("DHT");
IsConnecting(line) == Contains(line, "Connecting to") \/ Contains(line, "DHT")
\* let is_announced = line.contains("Announced that blocks") && line.contains("joining");
IsAnnounced(line) == Contains(line, "Announced that blocks") /\ Contains(line, "joining")
\* let is_loading = line.contains("Loading") || line.contains("Measuring");
IsLoading(line) == Contains(line, "Loading") \/ Contains(line, "Measuring")

\* app_handle.emit(name, payload)
Emit(name, payload) == <<[name |-> name, payload |-> payload]>>
\* emitted only if the flag is set
EmitIf(flag, name, payload) == IF flag THEN Emit(name, payload) ELSE <<>>

\* the payload of the petals_error event for a clock-desync line
TimeSyncMessage ==
    "TIME SYNC ERROR: Your system clock is out of sync. Please restart the app and try again."

\* what the reader emits before it pushes the line
ProgressEvents(line) ==
    EmitIf(IsConnecting(line), "petals_progress", "connecting")
      \o EmitIf(IsLoading(line), "petals_progress", "loading")
      \o EmitIf(IsAnnounced(line), "petals_progress", "announcing")

\* a reader whose two error branches are not exclusive
ErrorEventsBoth(line) ==
    EmitIf(platform = "windows" /\ IsTimeError(line), "petals_error", TimeSyncMessage)
      \o EmitIf(IsError(line), "petals_error", line)

\* cfg(windows): if is_time_error { emit(petals_error, TIME SYNC ...) }
\*               else if is_error { emit(petals_error, line) }
\* macOS, Linux: if is_error { emit(petals_error, line) }
ErrorEvents(line) ==
    IF platform = "windows" /\ IsTimeError(line)
    THEN Emit("petals_error", TimeSyncMessage)
    ELSE EmitIf(IsError(line), "petals_error", line)

\* a reader that forwards a line as petals_error in place of petals_log
LogEventsErrorOnly(line) ==
    IF IsError(line)
    THEN ErrorEvents(line)
    ELSE Emit("petals_log", line)
           \o EmitIf(IsSuccess(line), "petals_success", "Model loaded successfully")

\* what the reader emits after it has pushed the line
LogEvents(line) ==
    Emit("petals_log", line)
      \o ErrorEvents(line)
      \o EmitIf(IsSuccess(line), "petals_success", "Model loaded successfully")

\* one turn of `for line in reader.lines()` of the stdout reader thread
ReadStdoutLine(line) ==
    /\ Len(read_lines) < MaxLogLines
    /\ read_lines' = Append(read_lines, line)
    /\ seeder_logs' = PushLog(seeder_logs, line, StdoutLogCap)
    /\ emitted' = emitted \o ProgressEvents(line) \o LogEvents(line)
    /\ ret' = NoReturn
    /\ UNCHANGED <<platform, process, model_name, node_token, wsl_setup_complete,
                   macos_setup_complete, process_lock, poisoned, os, call,
                   setup_succeeded, inference_process, setup_run, gpu_info, device,
                   stderr_reader, pipes, printed, locks>>

\* the payloads of the events called name, in the order of emission
RECURSIVE PayloadsOf(_, _)
PayloadsOf(events, name) ==
    IF events = <<>> THEN <<>>
    ELSE (IF Head(events).name = name THEN <<Head(events).payload>> ELSE <<>>)
           \o PayloadsOf(Tail(events), name)

\* the last k elements of seq, all of it if it is shorter
LastOf(seq, k) ==
    IF Len(seq) <= k THEN seq ELSE SubSeq(seq, Len(seq) - k + 1, Len(seq))

\* the events the step under way adds
NewEvents == SubSeq(emitted', Len(emitted) + 1, Len(emitted'))

LogNext ==
    \/ \E line \in LogLines : ReadStdoutLine(line)
    \/ \E t \in Threads : GetLogs(t)

LogSpec == Init /\ [][LogNext]_vars

\* ------------------------------------------------- device selection
\* entries of gpu_info in one probe result
MaxGpus == 2

\* entries get_gpu_info can produce
GpuNames ==
    {"NVIDIA GeForce RTX 3080",
     "Intel UHD Graphics",
     "Tesla T4 (nvidia)",
     "ASUS GTX 1060",
     "Quadro Rtx 4000",
     "AMD Radeon RX 580",
     "No GPU detected",
     "GPU detection failed: access denied"}

\* Vec<String> of at most MaxGpus entries
GpuLists == UNION {[1..n -> GpuNames] : n \in 0..MaxGpus}

\* Result<HardwareInfo, String>, of which only gpu_info is read
ProbeResults ==
    {[ok |-> TRUE, gpu_info |-> list] : list \in GpuLists}
      \cup {[ok |-> FALSE, gpu_info |-> <<>>]}

UpperLetters == "ABCDEFGHIJKLMNOPQRSTUVWXYZ"
LowerLetters == "abcdefghijklmnopqrstuvwxyz"

\* char::to_lowercase on one ASCII character
LowerChar(c) ==
    IF \E i \in 1..Len(UpperLetters) : SubSeq(UpperLetters, i, i) = c
    THEN LET i == CHOOSE i \in 1..Len(UpperLetters) : SubSeq(UpperLetters, i, i) = c
         IN  SubSeq(LowerLetters, i, i)
    ELSE c

\* str::to_lowercase
RECURSIVE ToLowercase(_)
ToLowercase(str) ==
    IF str = "" THEN ""
    ELSE LowerChar(SubSeq(str, 1, 1)) \o ToLowercase(SubSeq(str, 2, Len(str)))

\* the closure without to_lowercase
IsNvidiaNameExact(gpu) ==
    \/ Contains(gpu, "nvidia")
    \/ Contains(gpu, "geforce")
    \/ Contains(gpu, "rtx")
    \/ Contains(gpu, "gtx")

\* the closure of info.gpu_info.iter().any(..)
IsNvidiaName(gpu) ==
    LET gpu_lower == ToLowercase(gpu)
    IN  \/ Contains(gpu_lower, "nvidia")
        \/ Contains(gpu_lower, "geforce")
        \/ Contains(gpu_lower, "rtx")
        \/ Contains(gpu_lower, "gtx")

\* let has_nvidia_gpu = match get_hardware_info() { Ok(info) => any(..), Err(_) => false }
HasNvidiaGpu(sys_info) ==
    IF sys_info.ok
    THEN \E i \in 1..Len(sys_info.gpu_info) : IsNvidiaName(sys_info.gpu_info[i])
    ELSE FALSE

\* let device = if has_nvidia_gpu { "cuda" } else { "cpu" };
DeviceFor(sys_info) == IF HasNvidiaGpu(sys_info) THEN "cuda" ELSE "cpu"

\* start_petals_seeder on Windows and Linux probes the hardware and picks the
\* device; the macOS variant passes no --device
SelectDevice(sys_info) ==
    /\ platform \in {"windows", "linux"}
    /\ gpu_info' = <<sys_info>>
    /\ device' = DeviceFor(sys_info)
    /\ ret' = NoReturn
    /\ UNCHANGED <<platform, state, os, process_lock, poisoned, call, setup_succeeded,
                   emitted, read_lines, inference_process, setup_run,
                   stderr_reader, pipes, printed, locks>>

DeviceNext == \E sys_info \in ProbeResults : SelectDevice(sys_info)

DeviceSpec == Init /\ [][DeviceNext]_vars

\* ------------------------------------------- InferenceState and its commands
\* stdout lines one inference process gets forwarded
MaxInferLines == 1

\* the frontend sends its next inference command when the last one has answered
NoCommandUnderWay == \A t \in Threads : Free(t)

\* the stdout reader thread of inference process p forwards its next line; the
\* thread is detached and reads on until the pipe is at its end, whatever
\* happens to the handle
InferenceReader(p) ==
    /\ child[p] # "none"
    /\ out_read[p] < MaxInferLines
    /\ out_read' = [out_read EXCEPT ![p] = @ + 1]
    /\ emitted' = Append(emitted, [name |-> "petals_inference_log",
                                   payload |-> <<p, out_read[p] + 1>>])
    /\ ret' = NoReturn
    /\ UNCHANGED <<platform, state, process_lock, poisoned, child, inner, err_read,
                   cmdline, call, setup_succeeded, read_lines, inference_process,
                   setup_run, gpu_info, device,
                   stderr_reader, pipes, printed, locks>>

\* child.kill(): Ok forces a running child to exit and leaves an exited one as
\* it is; Err leaves the child as it is
Kill(p, ok) ==
    child' = [child EXCEPT ![p] = IF ok /\ @ = "running" THEN "exited" ELSE @]

\* state.process.lock() of InferenceState: the guard of the first block of
\* run_petals_inference lives until child.wait() has returned
InferenceLockFree == \A u \in Threads : call[u].pc # "i_wait"

\* run_petals_inference, first block:
\* if let Some(mut child) = process_guard.take() { child.kill().ok(); .. }
TakePrevious(t) ==
    /\ Free(t)
    /\ InferenceLockFree
    /\ CanSpawn
    /\ IF inference_process = 0
       THEN /\ Continues(t, [Idle EXCEPT !.op = "run", !.pc = "i_spawn"])
            /\ UNCHANGED <<child, inference_process,
                   stderr_reader, pipes, printed, locks>>
       ELSE /\ \E ok \in BOOLEAN : Kill(inference_process, ok)
            /\ inference_process' = 0
            /\ Continues(t, [Idle EXCEPT !.op = "run", !.pc = "i_wait",
                                         !.child = inference_process])
    /\ UNCHANGED <<platform, state, process_lock, poisoned, inner, out_read, err_read,
                   cmdline, setup_succeeded, emitted, read_lines, setup_run,
                   gpu_info, device,
                   stderr_reader, pipes, printed, locks>>

\* run_petals_inference called when the last command has answered
RunTake(t) == NoCommandUnderWay /\ TakePrevious(t)

\* child.wait().ok(): blocks until the previous child has exited, reaps it
RunWait(t) ==
    /\ At(t, "i_wait")
    /\ child[call[t].child] = "exited"
    /\ child' = [child EXCEPT ![call[t].child] = "reaped"]
    /\ Continues(t, [call[t] EXCEPT !.pc = "i_spawn", !.child = 0])
    /\ UNCHANGED <<platform, state, process_lock, poisoned, inner, out_read, err_read,
                   cmdline, setup_succeeded, emitted, read_lines, inference_process,
                   setup_run, gpu_info, device,
                   stderr_reader, pipes, printed, locks>>

\* resolve the script (on Windows copy it into WSL), spawn, start the reader
RunSpawn(t) ==
    /\ At(t, "i_spawn")
    /\ \/ /\ Returns(t, "run", "Err")                    \* `?` or return Err(..)
          /\ UNCHANGED <<child, inner>>
       \/ /\ CanSpawn
          /\ child' = [child EXCEPT ![NewPid] = "running"]
          /\ inner' = [inner EXCEPT ![NewPid] =
                         IF platform = "windows" THEN "running" ELSE @]
          /\ Continues(t, [call[t] EXCEPT !.pc = "i_store", !.child = NewPid])
    /\ UNCHANGED <<platform, state, process_lock, poisoned, out_read, err_read,
                   cmdline, setup_succeeded, emitted, read_lines, inference_process,
                   setup_run, gpu_info, device,
                   stderr_reader, pipes, printed, locks>>

\* *process_guard = Some(child); Ok("Inference started")
RunStore(t) ==
    /\ At(t, "i_store")
    /\ InferenceLockFree
    /\ inference_process' = call[t].child
    /\ Returns(t, "run", "Ok")
    /\ UNCHANGED <<platform, state, process_lock, poisoned, os, setup_succeeded,
                   emitted, read_lines, setup_run, gpu_info, device,
                   stderr_reader, pipes, printed, locks>>

\* match child.kill() { Ok(_) => Ok("Inference process stopped."),
\*                      Err(e) => Err("Failed to stop inference process: ..") }
StopKillArm(ok) == IF ok THEN "Ok" ELSE "Err"

\* stop_petals_inference
StopInference(t) ==
    /\ NoCommandUnderWay
    /\ IF inference_process = 0
       THEN /\ Returns(t, "stop_inference", "Ok")
            /\ UNCHANGED <<child, inference_process,
                   stderr_reader, pipes, printed, locks>>
       ELSE /\ inference_process' = 0
            /\ \E ok \in BOOLEAN :
                  \* Ok: killed, then child.wait().ok() reaps; Err: the handle is dropped
                  /\ child' = [child EXCEPT ![inference_process] =
                                   IF ok THEN "reaped" ELSE @]
                  /\ Returns(t, "stop_inference", StopKillArm(ok))
    /\ UNCHANGED <<platform, state, process_lock, poisoned, inner, out_read, err_read,
                   cmdline, setup_succeeded, emitted, read_lines, setup_run,
                   gpu_info, device,
                   stderr_reader, pipes, printed, locks>>

SupersedeNext ==
    \/ \E p \in Pids : ChildExits(p)
    \/ \E p \in Pids : InnerExits(p)
    \/ \E p \in Pids : InferenceReader(p)
    \/ \E t \in Threads : RunTake(t)
    \/ \E t \in Threads : RunWait(t)
    \/ \E t \in Threads : RunSpawn(t)
    \/ \E t \in Threads : RunStore(t)

\* run_petals_inference called again and again, never stop_petals_inference
SupersedeSpec == Init /\ [][SupersedeNext]_vars

InferNext ==
    \/ SupersedeNext
    \/ \E t \in Threads : StopInference(t)

InferSpec == Init /\ [][InferNext]_vars

\* run_petals_inference is an async command: a second call can be made while
\* the first has not answered
OverlapNext ==
    \/ \E p \in Pids : ChildExits(p)
    \/ \E p \in Pids : InnerExits(p)
    \/ \E p \in Pids : InferenceReader(p)
    \/ \E t \in Threads : TakePrevious(t)
    \/ \E t \in Threads : RunWait(t)
    \/ \E t \in Threads : RunSpawn(t)
    \/ \E t \in Threads : RunStore(t)

OverlapSpec == Init /\ [][OverlapNext]_vars

\* ----------------------------------------- the workflows, step by step
\* emit_progress(stage, _, progress), as an entry of the run's trace
Stage(stage, progress) == <<[kind |-> "event", stage |-> stage, progress |-> progress]>>
\* a probe or an install command that was run, and whether it answered
\* true / Ok(..)
Cmd(name, ok) == <<[kind |-> "cmd", name |-> name, ok |-> ok]>>
\* app.path().app_config_dir(), no external command
Lookup(name, ok) == <<[kind |-> "path", name |-> name, ok |-> ok]>>

\* work first, the event after it
StepWorkFirst(stage, progress, name, ok) == Cmd(name, ok) \o Stage(stage, progress)

\* emit_progress(stage, .., progress); then the stage's probe or installer
Step(stage, progress, name, ok) == Stage(stage, progress) \o Cmd(name, ok)

\* an outcome that reports "complete" whatever the result is
OutcomeAlwaysComplete(trace, result) ==
    [trace |-> IF result = "Ok" THEN trace ELSE trace \o Stage("complete", 100),
     result |-> result]

\* what one run did and what the command returned: "Ok", "RestartRequired",
\* "WrongPlatform", or the name of the step whose error is returned
Outcome(trace, result) == [trace |-> trace, result |-> result]

\* the answers of a Windows machine to the probes and installers
WslMachines ==
    [wsl : BOOLEAN, wslInstalls : BOOLEAN, python : BOOLEAN, pythonInstalls : BOOLEAN,
     petals : BOOLEAN, petalsInstalls : BOOLEAN]

\* the two profiles differ in the library probe and installer
PetalsProbe(w) ==
    IF w = "setup_wsl_client" THEN "check_wsl_petals_client_only" ELSE "check_wsl_petals"
PetalsInstaller(w) ==
    IF w = "setup_wsl_client" THEN "install_wsl_petals_client_only" ELSE "install_wsl_petals"

\* an arm that goes on to "complete" after the install
WslAbsentArmGoesOn(checked, installs) ==
    Outcome(checked \o Step("installing_wsl", 20, "install_wsl", installs)
                    \o Stage("wsl_installed", 40) \o Stage("complete", 100), "Ok")

\* if !check_wsl_installed() { emit(installing_wsl); install_wsl()?;
\*                             emit(wsl_installed); return Err(restart) }
WslAbsentArm(checked, installs) ==
    LET tried == checked \o Step("installing_wsl", 20, "install_wsl", installs)
    IN  IF installs
        THEN Outcome(tried \o Stage("wsl_installed", 40), "RestartRequired")
        ELSE Outcome(tried, "install_wsl")

\* setup_wsl_environment and setup_wsl_environment_client, cfg(windows)
WslSetup(m, w) ==
    LET t1 == Step("checking_wsl", 10, "check_wsl_installed", m.wsl)
        t2 == t1 \o Step("checking_python", 50, "check_wsl_python", m.python)
        t3 == t2 \o Step("installing_python", 60, "install_wsl_python", m.pythonInstalls)
        t4 == (IF m.python THEN t2 ELSE t3)
                 \o Step("checking_petals", 70, PetalsProbe(w), m.petals)
        t5 == t4 \o Step("installing_petals", 80, PetalsInstaller(w), m.petalsInstalls)
        t6 == (IF m.petals THEN t4 ELSE t5)
                 \o Stage("configuring_wsl", 90) \o Stage("complete", 100)
    IN  IF ~m.wsl THEN WslAbsentArm(t1, m.wslInstalls)
        ELSE IF ~m.python /\ ~m.pythonInstalls THEN Outcome(t3, "install_wsl_python")
        ELSE IF ~m.petals /\ ~m.petalsInstalls THEN Outcome(t5, PetalsInstaller(w))
        ELSE Outcome(t6, "Ok")

\* the answers of a Mac to the probes and installers
MacosMachines ==
    [docker : BOOLEAN, desktop : BOOLEAN, daemon : BOOLEAN, python : BOOLEAN,
     brew : BOOLEAN, brewInstalls : BOOLEAN, petals : BOOLEAN,
     petalsInstalls : BOOLEAN, verified : BOOLEAN, appDir : BOOLEAN,
     image : BOOLEAN, builds : BOOLEAN, sntp : SntpOutcomes]

\* a last stage whose failure ends the workflow
SyncStageFatal(tried, sntp) ==
    IF sntp = "synced"
    THEN Outcome(tried \o Step("sync_time", 97, "sync_macos_time", TRUE)
                       \o Stage("complete", 100), "Ok")
    ELSE Outcome(tried \o Step("sync_time", 97, "sync_macos_time", FALSE),
                 "sync_macos_time")

\* emit_progress("sync_time"); if let Err(e) = sync_macos_time() { println };
\* emit_progress("complete"); Ok(..)
SyncStage(tried, sntp) ==
    Outcome(tried \o Step("sync_time", 97, "sync_macos_time", SyncMacosTime(sntp) = "Ok")
                  \o Stage("complete", 100), "Ok")

\* setup_macos_environment, cfg(macos)
MacosSetup(m) ==
    LET t1 == Step("checking_docker", 10, "check_docker_installed", m.docker)
        t2 == t1 \o Stage("docker_ok", 25)
                 \o Step("checking_docker_running", 30,
                         "check_docker_desktop_running", m.desktop)
                 \o (IF m.desktop THEN <<>> ELSE Stage("docker_not_running", 32))
                 \o Cmd("check_docker_running", m.daemon)
        t3 == t2 \o Stage("docker_running", 40)
                 \o Step("checking_python", 50, "check_python3_installed", m.python)
        t4 == t3 \o Step("checking_homebrew", 55, "check_homebrew_installed", m.brew)
        t5 == t4 \o Step("installing_python", 60, "brew_install_python", m.brewInstalls)
        t6 == (IF m.python THEN t3 ELSE t5) \o Stage("python_ok", 70)
                 \o Step("checking_petals", 75, "check_petals_installed", m.petals)
        t7 == t6 \o Step("installing_petals", 80, "install_petals_macos", m.petalsInstalls)
        t8 == (IF m.petals THEN t6
               ELSE t7 \o Step("verifying_petals", 85, "check_petals_installed", m.verified))
                 \o Stage("checking_docker_image", 88)
                 \o Lookup("app_config_dir", m.appDir)
        t9 == t8 \o Cmd("check_docker_image_exists", m.image)
        t10 == t9 \o Step("building_docker_image", 90, "build_docker_image", m.builds)
        t11 == (IF m.image THEN t9 ELSE t10) \o Stage("docker_image_ready", 95)
    IN  IF ~m.docker THEN Outcome(t1 \o Stage("docker_missing", 15), "check_docker_installed")
        ELSE IF ~m.daemon
        THEN Outcome(t2 \o Stage("docker_not_running", 35)
                        \o Lookup("app_config_dir", m.appDir), "check_docker_running")
        ELSE IF ~m.python /\ ~m.brew THEN Outcome(t4, "check_homebrew_installed")
        ELSE IF ~m.python /\ ~m.brewInstalls THEN Outcome(t5, "brew_install_python")
        ELSE IF ~m.petals /\ ~m.petalsInstalls THEN Outcome(t7, "install_petals_macos")
        ELSE IF ~m.appDir THEN Outcome(t8, "app_config_dir")
        ELSE IF ~m.image /\ ~m.builds THEN Outcome(t10, "build_docker_image")
        ELSE SyncStage(t11, m.sntp)

\* the machines a workflow can meet on the platform it was built for
MachinesOf(w) == IF w = "setup_macos" THEN MacosMachines ELSE WslMachines
BuiltFor(w) == IF w = "setup_macos" THEN "macos" ELSE "windows"

\* one call of a workflow command on machine m
SetupOutcome(w, m) ==
    IF platform # BuiltFor(w) THEN Outcome(<<>>, "WrongPlatform")
    ELSE IF w = "setup_macos" THEN MacosSetup(m)
    ELSE WslSetup(m, w)

\* setup_wsl_environment, setup_wsl_environment_client or
\* setup_macos_environment runs from its first line to its return; a run
\* takes nothing over from an earlier one, so a behaviour holds one run
RunWorkflow(w, m) ==
    LET out == SetupOutcome(w, m)
    IN  /\ setup_run.workflow = "none"
        /\ setup_run' = [workflow |-> w, machine |-> m,
                         trace |-> out.trace, result |-> out.result]
        /\ setup_succeeded' = (setup_succeeded \/ out.result = "Ok")
        /\ ret' = NoReturn
        /\ UNCHANGED <<platform, state, process_lock, poisoned, os, call, emitted,
                       read_lines, inference_process, gpu_info, device,
                   stderr_reader, pipes, printed, locks>>

SetupNext == \E w \in Workflows : \E m \in MachinesOf(w) : RunWorkflow(w, m)

SetupSpec == Init /\ [][SetupNext]_vars

\* ------------------------------------ the time sync of the macOS build
\* Macs on which setup_macos_environment comes to its last stage, by every
\* way there is to it (python, the libraries and the image found or made)
SyncMachines ==
    {m \in MacosMachines :
       /\ m.docker /\ m.desktop /\ m.daemon /\ m.appDir
       /\ m.brew /\ m.brewInstalls /\ m.petalsInstalls /\ m.verified /\ m.builds}

\* setup_macos_environment, the front end's mark of its success, and
\* start_petals_seeder, each calling sync_macos_time where the code does
SyncNext ==
    \/ \E m \in SyncMachines : RunWorkflow("setup_macos", m)
    \/ \E t \in Threads : MarkMacosSetupComplete(t)
    \/ \E t \in Threads, m \in Models, k \in Tokens : StartCheck(t, m, k)
    \/ \E t \in Threads : StartSpawn(t)
    \/ \E t \in Threads : StartCommit(t)

SyncSpec == Init /\ [][SyncNext]_vars

\* --------------------------- the library probe and installer inside WSL
\* Result<String, String> of execute_wsl_command
CmdOk(out) == [ok |-> TRUE, out |-> out]
CmdErr == [ok |-> FALSE, out |-> ""]

\* str::trim
IsSpace(c) == c \in {" ", "\n", "\t"}
RECURSIVE TrimStart(_)
TrimStart(str) ==
    IF Len(str) > 0 /\ IsSpace(SubSeq(str, 1, 1))
    THEN TrimStart(SubSeq(str, 2, Len(str))) ELSE str
RECURSIVE TrimEnd(_)
TrimEnd(str) ==
    IF Len(str) > 0 /\ IsSpace(SubSeq(str, Len(str), Len(str)))
    THEN TrimEnd(SubSeq(str, 1, Len(str) - 1)) ELSE str
Trim(str) == TrimEnd(TrimStart(str))

\* what the WSL distribution holds, and whether each installing command
\* succeeds in it; "unreachable" is a `wsl -e bash -c` that fails by itself
PetalsMachines ==
    [venv : {"exists", "missing", "unreachable"},
     core : {"works", "noisy", "broken", "unreachable"},
     extras : {"works", "broken", "unreachable"},
     pipExtras : BOOLEAN, clears : BOOLEAN, reinstalls : BOOLEAN,
     venvCreates : BOOLEAN, pipUpgrades : BOOLEAN, installs : BOOLEAN,
     verifies : BOOLEAN]

\* test -d ~/.torbiz_venv && echo 'exists' || echo 'missing'
TestVenv(m) ==
    IF m.venv = "unreachable" THEN CmdErr ELSE CmdOk(m.venv \o "\n")
\* python3 -c 'import petals; import torch; print("core_ok")' 2>/dev/null,
\* in the probe followed by  || echo 'not_found'; an import that writes to
\* stdout puts its words before the token
ImportCore(m, fallback) ==
    IF m.core = "works" THEN CmdOk("core_ok\n")
    ELSE IF m.core = "noisy" THEN CmdOk("WARNING: bitsandbytes without GPU support\ncore_ok\n")
    ELSE IF m.core = "broken" /\ fallback THEN CmdOk("not_found\n")
    ELSE CmdErr
\* python3 -c 'import peft; import accelerate; print("extras_ok")' 2>/dev/null,
\* in the probe followed by  || echo 'extras_missing'
ImportExtras(m, fallback) ==
    IF m.extras = "works" THEN CmdOk("extras_ok\n")
    ELSE IF m.extras = "broken" /\ fallback THEN CmdOk("extras_missing\n")
    ELSE CmdErr

\* a comparison that is content with the token somewhere in the output
SaysLoosely(answer, token) == answer.ok /\ Contains(answer.out, token)

\* Ok(output) with output.trim() == token
Says(answer, token) == answer.ok /\ Trim(answer.out) = token

\* check_wsl_petals, cfg(windows)
CheckWslPetals(m) ==
    LET t1 == Cmd("test_venv", TestVenv(m).ok)
        t2 == t1 \o Cmd("import_core", ImportCore(m, TRUE).ok)
        t3 == t2 \o Cmd("import_extras", ImportExtras(m, TRUE).ok)
    IN  IF Says(TestVenv(m), "missing") THEN Outcome(t1, "false")
        ELSE IF ~Says(ImportCore(m, TRUE), "core_ok") THEN Outcome(t2, "false")
        ELSE IF Says(ImportExtras(m, TRUE), "extras_ok") THEN Outcome(t3, "true")
        ELSE Outcome(t3, "false")

\* a repair of the core that reinstalls over the compiled caches
ReinstallCoreKeepingCaches(tried, m) ==
    tried \o Cmd("pip_force_reinstall_petals", m.reinstalls)
          \o Cmd("clear_pycache", m.clears)

\* Core packages not working: clear the bytecode cache, its result dropped
\* by .ok(), then pip install --force-reinstall
ReinstallCore(tried, m) ==
    tried \o Cmd("clear_pycache", m.clears)
          \o Cmd("pip_force_reinstall_petals", m.reinstalls)

\* the verification that ends install_wsl_petals; its failure is only printed
VerifyInstall(tried, m) == Outcome(tried \o Cmd("verify_import", m.verifies), "Ok")

\* install_wsl_petals, cfg(windows)
InstallWslPetals(m) ==
    LET t1 == Cmd("test_venv", TestVenv(m).ok)
        t2 == t1 \o Cmd("import_core", ImportCore(m, FALSE).ok)
        t3 == t2 \o Cmd("import_extras", ImportExtras(m, FALSE).ok)
        extras == t3 \o Cmd("pip_install_peft_accelerate", m.pipExtras)
        core == ReinstallCore(t2, m)
        v1 == t1 \o Cmd("create_venv", m.venvCreates)
        v2 == v1 \o Cmd("pip_upgrade_pip", m.pipUpgrades)
        v3 == v2 \o Cmd("pip_install_petals", m.installs)
    IN  IF Says(TestVenv(m), "exists")
        THEN IF Says(ImportCore(m, FALSE), "core_ok")
             THEN IF Says(ImportExtras(m, FALSE), "extras_ok") THEN VerifyInstall(t3, m)
                  ELSE IF m.pipExtras THEN VerifyInstall(extras, m)
                  ELSE Outcome(extras, "pip_install_peft_accelerate")
             ELSE IF m.reinstalls THEN VerifyInstall(core, m)
             ELSE Outcome(core, "pip_force_reinstall_petals")
        ELSE IF ~m.venvCreates THEN Outcome(v1, "create_venv")
        ELSE IF ~m.pipUpgrades THEN Outcome(v2, "pip_upgrade_pip")
        ELSE IF ~m.installs THEN Outcome(v3, "pip_install_petals")
        ELSE VerifyInstall(v3 \o Cmd("clear_pycache", m.clears), m)

PetalsFunctions == {"check_wsl_petals", "install_wsl_petals"}

\* one call of the probe or of the installer in distribution m; built for
\* another platform the probe is `false` and the installer an Err
PetalsOutcome(f, m) ==
    IF platform # "windows"
    THEN Outcome(<<>>, IF f = "check_wsl_petals" THEN "false" ELSE "WrongPlatform")
    ELSE IF f = "check_wsl_petals" THEN CheckWslPetals(m)
    ELSE InstallWslPetals(m)

\* the function runs from its first line to its return
RunPetals(f, m) ==
    LET out == PetalsOutcome(f, m)
    IN  /\ setup_run.workflow = "none"
        /\ setup_run' = [workflow |-> f, machine |-> m,
                         trace |-> out.trace, result |-> out.result]
        /\ ret' = NoReturn
        /\ UNCHANGED <<platform, state, process_lock, poisoned, os, call,
                       setup_succeeded, emitted, read_lines, inference_process,
                       gpu_info, device, stderr_reader, pipes, printed, locks>>

PetalsNext == \E f \in PetalsFunctions : \E m \in PetalsMachines : RunPetals(f, m)

PetalsSpec == Init /\ [][PetalsNext]_vars

\* ------------------------------------------ the macOS stderr reader
\* stderr lines the reader takes in one run of StderrSpec
MaxStderrLines == 4

\* lines a worker can write to stderr
StderrLines ==
    {"Traceback (most recent call last):",
     "  File run_petals_seeder.py, line 12, in <module>",
     "ModuleNotFoundError: No module named peft",
     "ValueError: bad block index",
     "KeyboardInterrupt",
     "ImportError: cannot import name x",
     "HTTP 401 Unauthorized",
     "hello"}

\* str::starts_with, str::ends_with
StartsWith(str, pre) == Len(str) >= Len(pre) /\ SubSeq(str, 1, Len(pre)) = pre
EndsWith(str, suf) ==
    Len(str) >= Len(suf) /\ SubSeq(str, Len(str) - Len(suf) + 1, Len(str)) = suf

\* error_buffer.join("\n")
RECURSIVE Join(_)
Join(lines) ==
    IF lines = <<>> THEN ""
    ELSE IF Len(lines) = 1 THEN lines[1]
    ELSE lines[1] \o "\n" \o Join(Tail(lines))

\* line.contains("Traceback (most recent call last):")
IsTracebackStart(line) == Contains(line, "Traceback (most recent call last):")
\* the end of a traceback: an exception line without indentation
IsExceptionLine(line) ==
    /\ ~StartsWith(line, "  ")
    /\ ~StartsWith(line, "\t")
    /\ \/ Contains(line, "Error:")
       \/ Contains(line, "Exception:")
       \/ Contains(line, "Error ")
       \/ EndsWith(line, "Error")
\* line.contains("ImportError") || line.contains("ModuleNotFoundError")
IsImportError(line) == Contains(line, "ImportError") \/ Contains(line, "ModuleNotFoundError")
\* line.contains("401") || line.contains("Unauthorized")
IsAuthError(line) == Contains(line, "401") \/ Contains(line, "Unauthorized")

\* the payloads of the four petals_error events of the reader
PythonError(full_error) ==
    "Python Error on macOS:\n\n" \o full_error
      \o "\n\nPlease check if all dependencies are installed correctly."
IncompleteError(full_error) ==
    "Incomplete Error on macOS:\n\n" \o full_error
      \o "\n\nThe process may have terminated unexpectedly."
ImportErrorHint(line) ==
    "Import Error on macOS: " \o line
      \o "\n\nMissing Python dependencies. Please ensure peft and accelerate are installed:\npip install peft accelerate"
AuthErrorHint(line) ==
    "Authentication Error: " \o line
      \o ". This may be due to system time being out of sync. Try restarting the app or manually syncing time in System Preferences > Date & Time."

\* the line closes the traceback under way
ClosesTraceback(r, line) ==
    ~IsTracebackStart(line) /\ r.in_traceback /\ IsExceptionLine(line)

\* in_traceback and error_buffer after the first if / else if of the loop body
AfterTraceback(r, line) ==
    IF IsTracebackStart(line)
    THEN [r EXCEPT !.in_traceback = TRUE, !.error_buffer = <<line>>]
    ELSE IF ClosesTraceback(r, line)
    THEN [r EXCEPT !.in_traceback = FALSE, !.error_buffer = <<>>]
    ELSE IF r.in_traceback
    THEN [r EXCEPT !.error_buffer = Append(@, line)]
    ELSE r

\* a reader that reports the exception line alone
TracebackEventsLastLine(r, line) ==
    EmitIf(ClosesTraceback(r, line), "petals_error", PythonError(line))

\* Emit the full traceback as one error
TracebackEvents(r, line) ==
    EmitIf(ClosesTraceback(r, line), "petals_error",
           PythonError(Join(Append(r.error_buffer, line))))

\* Detect critical single-line errors (not part of traceback); in_traceback
\* is read as the first part of the loop body has left it
SingleLineEvents(in_traceback, line) ==
    IF ~in_traceback /\ IsImportError(line) THEN Emit("petals_error", ImportErrorHint(line))
    ELSE IF ~in_traceback /\ IsAuthError(line) THEN Emit("petals_error", AuthErrorHint(line))
    ELSE <<>>

\* one turn of `for line in reader.lines()` of the stderr reader thread
ReadStderrLine(line) ==
    LET r == AfterTraceback(stderr_reader, line)
    IN  /\ platform = "macos"
        /\ ~stderr_reader.ended
        /\ Len(read_lines) < MaxStderrLines
        /\ read_lines' = Append(read_lines, line)
        /\ stderr_reader' = r
        /\ emitted' = emitted \o TracebackEvents(stderr_reader, line)
                              \o Emit("petals_log", "[STDERR] " \o line)
                              \o SingleLineEvents(r.in_traceback, line)
        /\ seeder_logs' = PushLog(seeder_logs, "[STDERR] " \o line, StderrLogCap)
        /\ ret' = NoReturn
        /\ UNCHANGED <<platform, process, model_name, node_token, wsl_setup_complete,
                       macos_setup_complete, process_lock, poisoned, os, call,
                       setup_succeeded, inference_process, setup_run, gpu_info, device,
                       pipes, printed, locks>>

\* the stream is at its end: If we still have an incomplete error buffer at
\* end of stream, emit it
StderrEnds ==
    /\ platform = "macos"
    /\ ~stderr_reader.ended
    /\ stderr_reader' = [stderr_reader EXCEPT !.ended = TRUE]
    /\ emitted' = emitted \o EmitIf(stderr_reader.error_buffer # <<>>, "petals_error",
                                     IncompleteError(Join(stderr_reader.error_buffer)))
    /\ ret' = NoReturn
    /\ UNCHANGED <<platform, state, process_lock, poisoned, os, call, setup_succeeded,
                   read_lines, inference_process, setup_run, gpu_info, device,
                   pipes, printed, locks>>

StderrNext ==
    \/ \E line \in StderrLines : ReadStderrLine(line)
    \/ StderrEnds

StderrSpec == Init /\ [][StderrNext]_vars

\* ------------------------------------- the Docker daemon check on macOS
\* check_docker_running() is check_docker_running_with_retries(3, 2)
DockerRetries == 3
DockerDelay == 2

\* the full paths of the Docker CLI tried by the second method, in order
DockerPaths ==
    <<"/usr/local/bin/docker", "/opt/homebrew/bin/docker",
      "/Applications/Docker.app/Contents/Resources/bin/docker">>

\* what the Mac answers in one attempt: `docker info` succeeds; the first
\* full path whose `info` succeeds (0: none); /var/run/docker.sock exists;
\* `docker info` over the socket, `docker context ls`, `docker ps` succeed.
\* An answer the attempt does not get to ask for is written FALSE (0).
DockerAnswers ==
    {a \in [info : BOOLEAN, path : 0..Len(DockerPaths), sock : BOOLEAN,
            sockInfo : BOOLEAN, context : BOOLEAN, ps : BOOLEAN] :
       /\ a.info => a.path = 0
       /\ (a.info \/ a.path # 0) => ~a.sock
       /\ ~a.sock => ~a.sockInfo
       /\ (~a.sock \/ a.sockInfo) => ~a.context
       /\ ~a.context => ~a.ps}

\* thread::sleep(Duration::from_secs(delay_seconds)), as an entry of the trace
Sleep(seconds) == <<[kind |-> "sleep", seconds |-> seconds]>>

\* Method 2: `info` with each full path in turn, up to the first that succeeds
RECURSIVE TryPaths(_, _)
TryPaths(i, works) ==
    IF i > Len(DockerPaths) THEN <<>>
    ELSE Cmd(DockerPaths[i], i = works)
           \o (IF i = works THEN <<>> ELSE TryPaths(i + 1, works))

\* the body of the for loop up to the wait: the methods in turn, `return
\* true` at the first that succeeds
DockerAttempt(a) ==
    LET m1 == Cmd("docker info", a.info)
        m2 == m1 \o TryPaths(1, a.path)
        m3 == m2 \o Lookup("/var/run/docker.sock", a.sock)
        m4 == m3 \o Cmd("DOCKER_HOST docker info", a.sockInfo)
        m5 == m4 \o Cmd("docker context ls", a.context)
        m6 == m5 \o Cmd("docker ps", a.ps)
    IN  IF a.info THEN Outcome(m1, "true")
        ELSE IF a.path # 0 THEN Outcome(m2, "true")
        ELSE IF ~a.sock THEN Outcome(m3, "false")
        ELSE IF a.sockInfo THEN Outcome(m4, "true")
        ELSE IF ~a.context THEN Outcome(m5, "false")
        ELSE Outcome(m6, IF a.ps THEN "true" ELSE "false")

\* a loop that waits after every failed attempt, the last one too
WaitAfterEach(attempt, max_retries, delay_seconds) == Sleep(delay_seconds)

\* if attempt < max_retries { thread::sleep(delay_seconds) }
WaitBeforeRetry(attempt, max_retries, delay_seconds) ==
    IF attempt < max_retries THEN Sleep(delay_seconds) ELSE <<>>

\* for attempt in attempt..=max_retries { .. }; false after the loop
RECURSIVE DockerLoop(_, _, _, _)
DockerLoop(attempt, max_retries, delay_seconds, answers) ==
    IF attempt > max_retries THEN Outcome(<<>>, "false")
    ELSE LET this == DockerAttempt(answers[attempt])
             rest == DockerLoop(attempt + 1, max_retries, delay_seconds, answers)
         IN  IF this.result = "true" THEN this
             ELSE Outcome(this.trace
                            \o WaitBeforeRetry(attempt, max_retries, delay_seconds)
                            \o rest.trace, rest.result)

\* check_docker_running_with_retries(max_retries, delay_seconds)
CheckDockerRunningWithRetries(max_retries, delay_seconds, answers) ==
    DockerLoop(1, max_retries, delay_seconds, answers)

\* check_docker_running()
CheckDockerRunning(answers) ==
    CheckDockerRunningWithRetries(DockerRetries, DockerDelay, answers)

\* the answers of the Mac to the attempts of one call
DockerDays == [1..DockerRetries -> DockerAnswers]

\* one call of check_docker_running_with_retries on a Mac
RunDockerCheck(max_retries, answers) ==
    LET out == CheckDockerRunningWithRetries(max_retries, DockerDelay, answers)
    IN  /\ platform = "macos"
        /\ setup_run.workflow = "none"
        /\ setup_run' = [workflow |-> "check_docker_running_with_retries",
                         machine |-> [max_retries |-> max_retries, answers |-> answers],
                         trace |-> out.trace, result |-> out.result]
        /\ ret' = NoReturn
        /\ UNCHANGED <<platform, state, process_lock, poisoned, os, call,
                       setup_succeeded, emitted, read_lines, inference_process,
                       gpu_info, device, stderr_reader, pipes, printed, locks>>

\* Macs that differ in the Docker Desktop process only and have all the rest
DockerMachines ==
    {m \in MacosMachines :
       /\ m.docker /\ m.daemon /\ m.python /\ m.brew /\ m.brewInstalls /\ m.petals
       /\ m.petalsInstalls /\ m.verified /\ m.appDir /\ m.image /\ m.builds
       /\ m.sntp = "synced"}

\* one run of setup_macos_environment; its daemon check is what
\* check_docker_running() makes of the Mac's answers
RunMacosSetup(m, answers) ==
    LET daemon == CheckDockerRunning(answers).result = "true"
        out == SetupOutcome("setup_macos", [m EXCEPT !.daemon = daemon])
    IN  /\ platform = "macos"
        /\ setup_run.workflow = "none"
        /\ setup_run' = [workflow |-> "setup_macos",
                         machine |-> [max_retries |-> DockerRetries, answers |-> answers],
                         trace |-> out.trace, result |-> out.result]
        /\ setup_succeeded' = (setup_succeeded \/ out.result = "Ok")
        /\ ret' = NoReturn
        /\ UNCHANGED <<platform, state, process_lock, poisoned, os, call, emitted,
                       read_lines, inference_process, gpu_info, device, stderr_reader, pipes, printed, locks>>

DockerNext ==
    \/ \E n \in 1..DockerRetries, answers \in DockerDays : RunDockerCheck(n, answers)
    \/ \E m \in DockerMachines, answers \in DockerDays : RunMacosSetup(m, answers)

DockerSpec == Init /\ [][DockerNext]_vars

\* ---------------------------------- the pipes between worker and readers
\* lines a pipe holds before a write to it blocks (64 KiB on Linux), and
\* lines a worker writes in one run of PipeSpec
PipeCapacity == 2
MaxPipeWrites == 3

\* the pipe a write of the worker to this stream ends in: the Windows
\* command line ends in " 2>&1", so python's stderr is the wrapper's stdout;
\* on macOS and Linux the child has .stderr(Stdio::piped()) of its own
PipeOf(stream) ==
    IF stream = "stderr" /\ platform # "windows" THEN "err" ELSE "out"

\* the worker writes a line to stdout or stderr; write(2) on a full pipe
\* blocks the worker until a reader takes a line out
WorkerWrites(p, stream) ==
    /\ child[p] = "running"
    /\ pipes[p].wrote < MaxPipeWrites
    /\ pipes[p].blocked = "none"
    /\ pipes' = [pipes EXCEPT ![p] =
                   IF @[PipeOf(stream)] < PipeCapacity
                   THEN [@ EXCEPT ![PipeOf(stream)] = @ + 1, !.wrote = @ + 1]
                   ELSE [@ EXCEPT !.blocked = PipeOf(stream)]]
    /\ ret' = NoReturn
    /\ UNCHANGED <<platform, state, process_lock, poisoned, os, call, setup_succeeded,
                   emitted, read_lines, inference_process, setup_run, gpu_info,
                   device, stderr_reader, printed, locks>>

\* a line leaves the pipe; a write that was blocked on this pipe goes through
Taken(pipe, name) ==
    IF pipe.blocked = name
    THEN [pipe EXCEPT !.blocked = "none", !.wrote = @ + 1]
    ELSE [pipe EXCEPT ![name] = @ - 1]

\* if let Some(stdout) = child.stdout.take() { thread::spawn(.. for line in
\* reader.lines() { .. logs.push(line) .. }) }: on every platform
DrainStdout(p) ==
    /\ child[p] # "none"
    /\ pipes[p].out > 0
    /\ pipes' = [pipes EXCEPT ![p] = Taken(@, "out")]
    /\ out_read' = [out_read EXCEPT ![p] = @ + 1]
    /\ seeder_logs' = PushLog(seeder_logs, <<p, "out", out_read[p] + 1>>, StdoutLogCap)
    /\ ret' = NoReturn
    /\ UNCHANGED <<platform, process, model_name, node_token, wsl_setup_complete,
                   macos_setup_complete, process_lock, poisoned, child, inner,
                   err_read, cmdline, call, setup_succeeded, emitted, read_lines,
                   inference_process, setup_run, gpu_info, device, stderr_reader,
                   printed, locks>>

\* if let Some(stderr) = child.stderr.take() { thread::spawn(..) }: in the
\* macOS branch only; the Windows and Linux branches never take child.stderr
DrainStderr(p) ==
    /\ platform = "macos"
    /\ child[p] # "none"
    /\ pipes[p].err > 0
    /\ pipes' = [pipes EXCEPT ![p] = Taken(@, "err")]
    /\ err_read' = [err_read EXCEPT ![p] = @ + 1]
    /\ seeder_logs' = PushLog(seeder_logs, <<p, "err", err_read[p] + 1>>, StderrLogCap)
    /\ ret' = NoReturn
    /\ UNCHANGED <<platform, process, model_name, node_token, wsl_setup_complete,
                   macos_setup_complete, process_lock, poisoned, child, inner,
                   out_read, cmdline, call, setup_succeeded, emitted, read_lines,
                   inference_process, setup_run, gpu_info, device, stderr_reader,
                   printed, locks>>

\* one caller at a time is enough here: the pipes are those of one worker
PipeThreads == {1}

PipeNext ==
    \/ \E t \in PipeThreads, m \in Models, k \in Tokens : StartCheck(t, m, k)
    \/ \E t \in PipeThreads : StartSpawn(t)
    \/ \E t \in PipeThreads : StartCommit(t)
    \/ \E t \in PipeThreads : MarkWslSetupComplete(t)
    \/ \E t \in PipeThreads : MarkMacosSetupComplete(t)
    \/ \E p \in Pids, stream \in {"stdout", "stderr"} : WorkerWrites(p, stream)
    \/ \E p \in Pids : DrainStdout(p)
    \/ \E p \in Pids : DrainStderr(p)

PipeSpec == Init /\ [][PipeNext]_vars

\* ------------------------------------- what the supervisor prints itself
\* hf_token: Option<String>
HfTokens == {"None", "hf_secret"}
Devices == {"cuda", "cpu"}

\* cfg(windows): the command line handed to `wsl -e bash -c`
WslCommand(model, token, dev, hf) ==
    "source ~/.torbiz_venv/bin/activate && python3 ~/run_petals_seeder.py"
      \o " --model-name '" \o model \o "' --node-token '" \o token
      \o "' --device " \o dev \o " --port 31337"
      \o (IF hf = "None" THEN "" ELSE " --hf-token '" \o hf \o "'")
      \o " 2>&1"

\* the println! of start_petals_seeder that format one of its arguments
StartLines(model, token, dev, hf) ==
    {"[PETALS] Model: " \o model,
     "[PETALS] Device selected: " \o dev}
    \cup (IF platform = "windows"
          THEN {"[PETALS] Running WSL command: " \o WslCommand(model, token, dev, hf)}
          ELSE IF hf = "None" THEN {}
          ELSE {"[PETALS] Using provided HuggingFace token"})

\* the println! of stop_petals_seeder; the pkill and pgrep command lines,
\* which hold &token[..12], are executed and not printed
StopLines ==
    {"[PETALS] Stopping seeder process..."}
    \cup (IF platform = "windows"
          THEN {"[PETALS] Sending graceful shutdown signal to Python process in WSL...",
                "[PETALS] Sent SIGTERM to Python process"}
          ELSE {})

\* start_petals_seeder, as far as it writes to the supervisor's stdout
StartPrints(model, token, dev, hf) ==
    /\ printed' = printed \cup StartLines(model, token, dev, hf)
    /\ ret' = NoReturn
    /\ UNCHANGED <<platform, state, process_lock, poisoned, os, call, setup_succeeded,
                   emitted, read_lines, inference_process, setup_run, gpu_info,
                   device, stderr_reader, pipes, locks>>

\* stop_petals_seeder, as far as it writes to the supervisor's stdout
StopPrints ==
    /\ printed' = printed \cup StopLines
    /\ ret' = NoReturn
    /\ UNCHANGED <<platform, state, process_lock, poisoned, os, call, setup_succeeded,
                   emitted, read_lines, inference_process, setup_run, gpu_info,
                   device, stderr_reader, pipes, locks>>

PrintNext ==
    \/ \E m \in Models, k \in Tokens, d \in Devices, hf \in HfTokens : StartPrints(m, k, d, hf)
    \/ StopPrints

PrintSpec == Init /\ [][PrintNext]_vars

\* ------------------------------------------- the order of the mutexes
\* state.X.lock().unwrap() and the end of the guard's life, as steps
Acq(m) == <<[do |-> "lock", mutex |-> m]>>
Rel(m) == <<[do |-> "unlock", mutex |-> m]>>

\* { let process_guard = ..; if process_guard.is_some() { return Err } }
StartCheckLocks == Acq("process") \o Rel("process")
\* { process_guard; model_guard; token_guard } of the commit block; guards
\* are dropped in the reverse order of their declaration
StartCommitLocks ==
    Acq("process") \o Acq("model_name") \o Acq("node_token")
      \o Rel("node_token") \o Rel("model_name") \o Rel("process")

\* the two lookups of the Windows stop, each under node_token_guard, with
\* process_guard alive around them
StopLookupLocks ==
    IF platform = "windows" THEN Acq("node_token") \o Rel("node_token") ELSE <<>>
\* { model_guard; token_guard; logs_guard } after drop(process_guard)
StopClearLocks ==
    Acq("model_name") \o Acq("node_token") \o Acq("seeder_logs")
      \o Rel("seeder_logs") \o Rel("node_token") \o Rel("model_name")
\* stop_petals_seeder: the None arm, and the Some arm
StopLocks ==
    {Acq("model_name") \o Rel("model_name") \o Acq("process") \o Rel("process"),
     Acq("model_name") \o Rel("model_name") \o Acq("process")
       \o StopLookupLocks \o StopLookupLocks \o Rel("process") \o StopClearLocks}

\* a clearing block that takes the token first
RunningClearLocksReversed ==
    Acq("node_token") \o Acq("model_name") \o Rel("model_name") \o Rel("node_token")

\* Ok(Some(_)) => { *process_guard = None; drop(process_guard);
\*                  { model_guard; token_guard } }
RunningClearLocks ==
    Acq("model_name") \o Acq("node_token") \o Rel("node_token") \o Rel("model_name")
\* is_petals_seeder_running: the arms that answer at once, and the arm that clears
RunningLocks ==
    {Acq("process") \o Rel("process"),
     Acq("process") \o Rel("process") \o RunningClearLocks}
\* get_petals_seeder_info: is_petals_seeder_running, then model_name if true
InfoLocks ==
    RunningLocks \cup {Acq("process") \o Rel("process")
                          \o Acq("model_name") \o Rel("model_name")}
\* get_petals_seeder_logs, and logs.lock() of a reader thread for one line
LogsLocks == {Acq("seeder_logs") \o Rel("seeder_logs")}

\* the lock and unlock steps of each command, by the way it takes;
\* start_petals_seeder fails before its commit or reaches it
LockPrograms ==
    {StartCheckLocks, StartCheckLocks \o StartCommitLocks}
      \cup StopLocks \cup RunningLocks \cup InfoLocks \cup LogsLocks

\* thread t enters a command (a reader thread: takes a line)
Enters(t, program) ==
    /\ locks.rest[t] = <<>>
    /\ locks' = [locks EXCEPT !.rest[t] = program]
    /\ ret' = NoReturn
    /\ UNCHANGED <<platform, state, process_lock, poisoned, os, call, setup_succeeded,
                   emitted, read_lines, inference_process, setup_run, gpu_info,
                   device, stderr_reader, pipes, printed>>

\* the mutex thread t is about to lock, "none" if its next step is no lock
Wants(t) ==
    IF locks.rest[t] # <<>> /\ Head(locks.rest[t]).do = "lock"
    THEN Head(locks.rest[t]).mutex ELSE "none"

\* the guards thread t holds
Holds(t) == {m \in Mutexes : locks.owner[m] = t}

\* the next step of thread t can be taken: a lock() needs the mutex free
CanStep(t) ==
    /\ locks.rest[t] # <<>>
    /\ Head(locks.rest[t]).do = "lock" => locks.owner[Head(locks.rest[t]).mutex] = 0

\* what follows a lock(): the command goes on, or it panics with the guard in
\* hand (unwrap of a poisoned lock, &token[..12]) and unwinds
AfterLock(t) == {Tail(locks.rest[t]), <<[do |-> "unwind", mutex |-> "none"]>>}

\* the next step of thread t: lock() returns when the mutex is free (with
\* Ok or, if poisoned, with the guard inside the Err); a guard is dropped;
\* unwinding drops every guard the thread holds
LockStep(t) ==
    /\ CanStep(t)
    /\ LET step == Head(locks.rest[t])
       IN  CASE step.do = "lock" ->
                  \E rest \in AfterLock(t) :
                     locks' = [locks EXCEPT !.owner[step.mutex] = t, !.rest[t] = rest]
             [] step.do = "unlock" ->
                  locks' = [locks EXCEPT !.owner[step.mutex] = 0, !.rest[t] = Tail(@)]
             [] step.do = "unwind" ->
                  locks' = [owner |-> [m \in Mutexes |-> IF m \in Holds(t) THEN 0
                                                          ELSE locks.owner[m]],
                            rest |-> [locks.rest EXCEPT ![t] = <<>>]]
    /\ ret' = NoReturn
    /\ UNCHANGED <<platform, state, process_lock, poisoned, os, call, setup_succeeded,
                   emitted, read_lines, inference_process, setup_run, gpu_info,
                   device, stderr_reader, pipes, printed>>

LockNext ==
    \/ \E t \in Threads, program \in LockPrograms : Enters(t, program)
    \/ \E t \in Threads : LockStep(t)

LockSpec == Init /\ [][LockNext]_vars

\* a thread inside a command goes on: the external waits between its steps
\* end, and a thread that finds the mutex free again and again gets it
LockLiveSpec == LockSpec /\ \A t \in Threads : SF_vars(LockStep(t))

\* ================================================================ claims
\* C1: whenever a worker handle is stored, start_petals_seeder answers
\* "already running", spawns no process and leaves the stored handle,
\* model_name, node_token, the readiness flags and seeder_logs as they were
C1_StartWhileStored ==
    [][(process # 0 /\ \E t \in Threads, m \in Models, k \in Tokens : StartCheck(t, m, k))
          => (ret' = [op |-> "start", val |-> "AlreadyRunning"]
              /\ UNCHANGED <<state, os>>)]_vars

\* C2: under every interleaving of concurrent start_petals_seeder calls a
\* handle already stored by one start is never replaced by another start:
\* a start stores its child only into an empty handle
C2_HandleNeverReplaced ==
    [][\A t \in Threads : StartCommit(t) => process = 0]_vars

\* C3: in every state in which no start, stop or is_running call is partway
\* through, model_name and node_token are Some iff process is Some
C3_ModelAndTokenIffHandle ==
    (\A t \in Threads :
        call[t].pc \notin {"s_spawn", "s_commit", "t_wait", "t_unset", "t_clear", "r_clear"})
    => /\ (model_name # "None") <=> (process # 0)
       /\ (node_token # "None") <=> (process # 0)

\* C4: a start_petals_seeder(model, token) whose spawn succeeded stores the
\* handle together with Some(model) and Some(token); afterwards, while the
\* stored process is alive, is_petals_seeder_running answers true and
\* get_petals_seeder_info answers Some(model)
C4_StartThenQueries ==
    [][/\ \A t \in Threads :
            StartCommit(t) => /\ process' = call[t].child
                              /\ model_name' = call[t].model
                              /\ node_token' = call[t].token
                              /\ ret' = [op |-> "start", val |-> "Ok"]
       /\ \A t \in Threads :
            (process # 0 /\ child[process] = "running" /\ RunningPoll(t, "is_running"))
            => ret' = [op |-> "is_running", val |-> "true"]
       /\ \A t \in Threads :
            (process # 0 /\ child[process] = "running"
               /\ (RunningPoll(t, "get_info") \/ InfoRead(t)) /\ call'[t] = Idle)
            => (ret'.op = "get_info" /\ ret'.val \in Models)]_vars

\* C5: start_petals_seeder never spawns while the readiness flag of its
\* platform is false: it answers "not provisioned" and leaves PetalsState
\* unchanged; that answer is given only by a call that has passed the
\* already-running check, and a stored handle is answered "already running"
\* whatever the flag
C5_NotProvisioned ==
    [][LET flagFalse == \/ platform = "windows" /\ ~wsl_setup_complete
                        \/ platform = "macos" /\ ~macos_setup_complete
       IN  /\ (\E p \in Pids : child[p] = "none" /\ child'[p] # "none") => ~flagFalse
           /\ \A t \in Threads :
                (flagFalse /\ StartSpawn(t))
                => (ret' = [op |-> "start", val |-> "NotProvisioned"]
                    /\ UNCHANGED <<state, os>>)
           /\ (ret'.op = "start" /\ ret'.val = "NotProvisioned")
                => (flagFalse /\ process = 0 /\ \E t \in Threads : At(t, "s_spawn"))
           /\ \A t \in Threads, m \in Models, k \in Tokens :
                (process # 0 /\ ret'.val # "panic" /\ StartCheck(t, m, k))
                => ret'.val = "AlreadyRunning"]_vars

\* a start was refused for want of provisioning although no handle was stored
C5_Witness ==
    /\ ret = [op |-> "start", val |-> "NotProvisioned"]
    /\ platform \in {"windows", "macos"}
    /\ process = 0
    /\ \A p \in Pids : child[p] = "none"

\* C6, as the specification states it: the readiness flag that gates start
\* is true only after a provisioning workflow of the platform has returned
\* success
C6_FlagOnlyAfterSetupSucceeded ==
    (\/ platform = "windows" /\ wsl_setup_complete
     \/ platform = "macos" /\ macos_setup_complete) => setup_succeeded

\* C6, amended: a readiness flag becomes true only in a step of its
\* mark_*_setup_complete command, which sets it whether or not a workflow
\* has succeeded; no provisioning workflow writes a flag
C6_FlagSetOnlyByMark ==
    [][/\ wsl_setup_complete' # wsl_setup_complete
            => \E t \in Threads : MarkWslSetupComplete(t)
       /\ macos_setup_complete' # macos_setup_complete
            => \E t \in Threads : MarkMacosSetupComplete(t)
       /\ <<wsl_setup_complete, macos_setup_complete>>'
             # <<wsl_setup_complete, macos_setup_complete>>
            => ~\E t \in Threads, w \in Workflows : RunSetup(t, w)]_vars

\* a start was accepted on a gated platform although no workflow ever succeeded
C6_Witness ==
    /\ ret = [op |-> "start", val |-> "Ok"]
    /\ platform \in {"windows", "macos"}
    /\ ~setup_succeeded

\* C7: each readiness flag is monotonic: no step of any command makes a true
\* flag false, and a mark_*_setup_complete call leaves its flag true
C7_FlagsMonotonic ==
    [][/\ wsl_setup_complete => wsl_setup_complete'
       /\ macos_setup_complete => macos_setup_complete'
       /\ \A t \in Threads : MarkWslSetupComplete(t) => wsl_setup_complete'
       /\ \A t \in Threads : MarkMacosSetupComplete(t) => macos_setup_complete']_vars

\* both flags are still true after a worker was started and stopped
C7_Witness ==
    /\ wsl_setup_complete
    /\ macos_setup_complete
    /\ ret = [op |-> "stop", val |-> "Ok"]

\* C8: stop_petals_seeder called when no handle is stored answers "no seeder
\* is running" and leaves every PetalsState field unchanged
C8_StopWhenIdle ==
    [][\A t \in Threads :
          (process = 0 /\ StopSignal(t))
          => (ret' = [op |-> "stop", val |-> "NotRunning"]
              /\ UNCHANGED <<state, os>>)]_vars

\* stop was refused while the log buffer still held lines of an earlier worker
C8_Witness ==
    /\ ret = [op |-> "stop", val |-> "NotRunning"]
    /\ process = 0
    /\ seeder_logs # <<>>

\* C9: every stop_petals_seeder call that finds a stored handle ends with
\* process, model_name and node_token all None and seeder_logs empty, on
\* every path through the shutdown
C9_StopClearsEverything ==
    [][\A t \in Threads :
          (/\ \/ (process # 0 /\ poisoned \cap {"process", "model_name"} = {}
                    /\ StopSignal(t))
              \/ StopUnset(t)
              \/ StopClear(t)
           /\ call'[t] = Idle)
          => (/\ ret' = [op |-> "stop", val |-> "Ok"]
              /\ process' = 0
              /\ model_name' = "None"
              /\ node_token' = "None"
              /\ seeder_logs' = <<>>)]_vars

\* C10: is_petals_seeder_running is self-healing: when the stored process has
\* exited it clears process, model_name and node_token and answers false;
\* when the process is alive it answers true and changes nothing; and its
\* answer is true iff a handle is stored when it returns
C10_SelfHealingQuery ==
    [][/\ \A t \in Threads :
            (call[t].op = "is_running" /\ RunningClear(t))
            => (/\ ret' = [op |-> "is_running", val |-> "false"]
                /\ process' = 0
                /\ model_name' = "None"
                /\ node_token' = "None")
       /\ \A t \in Threads :
            (process # 0 /\ child[process] = "running" /\ RunningPoll(t, "is_running"))
            => (ret' = [op |-> "is_running", val |-> "true"] /\ UNCHANGED state)
       /\ ret'.op = "is_running"
            => (/\ ret'.val \in {"true", "false"}
                /\ (ret'.val = "true") <=> (process' # 0))]_vars

\* C11: in every state get_petals_seeder_logs can observe, seeder_logs is no
\* longer than its cap (200 where only stdout feeds it, 500 on macOS, where
\* stderr feeds it too) and holds exactly the most recent lines read, up to
\* the cap, in read order: only an append to a full buffer evicts, and it
\* evicts the oldest entry
C11_BoundedFifo ==
    LET cap  == IF platform = "macos" THEN StderrLogCap ELSE StdoutLogCap
        n    == Len(read_lines)
        keep == IF n < cap THEN n ELSE cap
    IN  /\ Len(seeder_logs) <= cap
        /\ seeder_logs = SubSeq(read_lines, n - keep + 1, n)

\* C12: every stdout line read, whatever the classifier says of it, is in the
\* log buffer once and is forwarded verbatim once as a petals_log event; the
\* buffer and the petals_log events are in the order the lines were read.
C12_EveryLineLoggedInOrder ==
    /\ PayloadsOf(emitted, "petals_log") = read_lines
    /\ seeder_logs = LastOf(read_lines, StdoutLogCap)

\* three lines were read: an error line, a progress line and a line that no
\* predicate matches
C12_Witness ==
    /\ Len(read_lines) = MaxLogLines
    /\ \E i, j, k \in 1..Len(read_lines) :
          /\ IsError(read_lines[i])
          /\ IsConnecting(read_lines[j])
          /\ read_lines[k] = "hello"
    /\ Len(emitted) > Len(read_lines)

\* C13: on every platform the reader answers "Connecting to the DHT..." with a
\* petals_progress event of stage connecting, and a line that contains "local
\* time must be within" with a petals_error event that carries the clock
\* message and with no petals_error event that carries the line.
C13_ClockDesyncDedicated ==
    [][\A line \in LogLines :
         ReadStdoutLine(line) =>
           /\ line = "Connecting to the DHT..." =>
                 \E i \in 1..Len(NewEvents) :
                    NewEvents[i] = [name |-> "petals_progress", payload |-> "connecting"]
           /\ Contains(line, "local time must be within") =>
                 /\ \E i \in 1..Len(NewEvents) :
                       NewEvents[i] = [name |-> "petals_error", payload |-> TimeSyncMessage]
                 /\ \A i \in 1..Len(NewEvents) :
                       NewEvents[i].name = "petals_error"
                         => NewEvents[i].payload = TimeSyncMessage]_vars

\* gpu_lower.contains(word), told letter by letter
SameLetter(a, b) == a = b \/ LowerChar(a) = b \/ a = LowerChar(b)
ContainsAnyCase(str, word) ==
    \E i \in 0..(Len(str) - Len(word)) :
       \A j \in 1..Len(word) : SameLetter(SubSeq(str, i + j, i + j), SubSeq(word, j, j))
\* C14: the device is a function of the vendor strings alone: cuda if and only
\* if the probe succeeded and some entry holds nvidia, geforce, rtx or gtx in
\* any mix of upper and lower case; cpu otherwise, as for the empty list, for
\* <<"Intel UHD Graphics">> and for a failed probe.
C14_DeviceFromVendorStrings ==
    gpu_info # <<>> =>
      LET sys_info == gpu_info[1]
          names    == sys_info.gpu_info
          nvidia   == /\ sys_info.ok
                      /\ \E i \in 1..Len(names) :
                            \E word \in {"nvidia", "geforce", "rtx", "gtx"} :
                               ContainsAnyCase(names[i], word)
      IN  /\ device \in {"cuda", "cpu"}
          /\ device = "cuda" <=> nvidia
          /\ names = <<"NVIDIA GeForce RTX 3080">> => device = "cuda"
          /\ names = <<"Intel UHD Graphics">> => device = "cpu"
          /\ names = <<>> => device = "cpu"
          /\ ~sys_info.ok => device = "cpu"

\* cuda was chosen for a list whose only match is spelt in upper case and
\* stands behind an entry that does not match
C14_Witness ==
    /\ gpu_info = <<[ok |-> TRUE, gpu_info |-> <<"Intel UHD Graphics", "ASUS GTX 1060">>]>>
    /\ device = "cuda"

\* C15: when run_petals_inference has answered Ok and no stop came in between,
\* the stored handle is the process spawned last, every earlier process is
\* dead and reaped, and from then on every petals_inference_log event carries
\* a line of the stored process.
C15_LastRequestWins ==
    [][(NoCommandUnderWay' /\ inference_process' # 0) =>
         /\ inference_process' = Cardinality(Spawned')
         /\ \A p \in Pids \ {inference_process'} :
               /\ child'[p] \in {"none", "reaped"}
               /\ inner'[p] # "running"
         /\ emitted' # emitted =>
               emitted'[Len(emitted')].payload[1] = inference_process']_vars

\* C16: stop_petals_inference answers Ok, never Err; afterwards no handle is
\* stored and the process that was stored is dead and reaped; with no handle
\* stored it answers Ok and changes nothing.
C16_StopInferenceAlwaysOk ==
    [][\A t \in Threads :
         StopInference(t) =>
           /\ ret'.val = "Ok"
           /\ inference_process' = 0
           /\ inference_process # 0 => child'[inference_process] = "reaped"
           /\ inference_process = 0 => UNCHANGED <<os, emitted,
                   stderr_reader, pipes, printed, locks>>]_vars

\* the run that was made, if one was
HasRun == setup_run.workflow # "none" /\ setup_run.result # "WrongPlatform"
Trace == setup_run.trace
Events == {i \in 1..Len(Trace) : Trace[i].kind = "event"}
Commands == {i \in 1..Len(Trace) : Trace[i].kind = "cmd"}
Failures == {i \in 1..Len(Trace) : Trace[i].kind \in {"cmd", "path"} /\ ~Trace[i].ok}
EmitsComplete == \E i \in Events : Trace[i].stage = "complete" /\ Trace[i].progress = 100

\* the stages of each workflow with their progress values, in order
WslStages ==
    {<<"checking_wsl", 10>>, <<"installing_wsl", 20>>, <<"wsl_installed", 40>>,
     <<"checking_python", 50>>, <<"installing_python", 60>>, <<"checking_petals", 70>>,
     <<"installing_petals", 80>>, <<"configuring_wsl", 90>>, <<"complete", 100>>}
MacosStages ==
    {<<"checking_docker", 10>>, <<"docker_missing", 15>>, <<"docker_ok", 25>>,
     <<"checking_docker_running", 30>>, <<"docker_not_running", 32>>,
     <<"docker_not_running", 35>>, <<"docker_running", 40>>, <<"checking_python", 50>>,
     <<"checking_homebrew", 55>>, <<"installing_python", 60>>, <<"python_ok", 70>>,
     <<"checking_petals", 75>>, <<"installing_petals", 80>>, <<"verifying_petals", 85>>,
     <<"checking_docker_image", 88>>, <<"building_docker_image", 90>>,
     <<"docker_image_ready", 95>>, <<"sync_time", 97>>, <<"complete", 100>>}
StagesOf(w) == IF w = "setup_macos" THEN MacosStages ELSE WslStages

\* the stages a probe or an install command belongs to
StageOfCommand(name) ==
    CASE name = "check_wsl_installed" -> {"checking_wsl"}
      [] name = "install_wsl" -> {"installing_wsl"}
      [] name \in {"check_wsl_python", "check_python3_installed"} -> {"checking_python"}
      [] name \in {"install_wsl_python", "brew_install_python"} -> {"installing_python"}
      [] name \in {"check_wsl_petals", "check_wsl_petals_client_only"} -> {"checking_petals"}
      [] name = "check_petals_installed" -> {"checking_petals", "verifying_petals"}
      [] name \in {"install_wsl_petals", "install_wsl_petals_client_only",
                   "install_petals_macos"} -> {"installing_petals"}
      [] name = "check_docker_installed" -> {"checking_docker"}
      [] name \in {"check_docker_desktop_running", "check_docker_running"}
           -> {"checking_docker_running"}
      [] name = "check_homebrew_installed" -> {"checking_homebrew"}
      [] name = "check_docker_image_exists" -> {"checking_docker_image"}
      [] name = "build_docker_image" -> {"building_docker_image"}
      [] name = "sync_macos_time" -> {"sync_time"}

\* C17: in every run of a workflow the progress events are stages of the
\* workflow's fixed list, their progress values lie in 0..100 and strictly
\* increase, and every probe or install command is run after the event of
\* its stage was emitted.
C17_ProgressBeforeWork ==
    HasRun =>
      /\ \A i \in Events :
            /\ <<Trace[i].stage, Trace[i].progress>> \in StagesOf(setup_run.workflow)
            /\ Trace[i].progress \in 0..100
      /\ \A i, j \in Events : i < j => Trace[i].progress < Trace[j].progress
      /\ \A c \in Commands :
            \E i \in Events : i < c /\ Trace[i].stage \in StageOfCommand(Trace[c].name)

\* a Mac with nothing installed but Homebrew, on which every install works:
\* the run goes through every install stage and ends with complete
C17_Witness ==
    /\ HasRun
    /\ setup_run.workflow = "setup_macos"
    /\ setup_run.result = "Ok"
    /\ ~setup_run.machine.python /\ ~setup_run.machine.petals /\ ~setup_run.machine.image
    /\ Cardinality(Commands) >= 10

\* a run of one of the two WSL workflows
WslRun == HasRun /\ setup_run.workflow \in {"setup_wsl", "setup_wsl_client"}
InstallsWslOnce ==
    Cardinality({c \in Commands : Trace[c].name = "install_wsl"}) = 1
\* nothing but the install follows the first probe: no later stage, no complete
StopsAfterWslInstall ==
    /\ \A c \in Commands : Trace[c].name \in {"check_wsl_installed", "install_wsl"}
    /\ \A i \in Events : Trace[i].progress <= 40
    /\ ~EmitsComplete

\* C18 (as stated): a WSL workflow starts with checking_wsl at progress 10;
\* when WSL is absent it is installed once and, whether the install succeeds
\* or fails, the call returns RestartRequired, runs no later stage and emits
\* no complete event.
C18_RestartWhateverInstallSays ==
    WslRun =>
      /\ Trace[1] = [kind |-> "event", stage |-> "checking_wsl", progress |-> 10]
      /\ ~setup_run.machine.wsl =>
            /\ InstallsWslOnce
            /\ setup_run.result = "RestartRequired"
            /\ StopsAfterWslInstall

\* C18 (amended): as above, but the call returns RestartRequired when the
\* install succeeded and the install's own error when it failed.
C18_RestartAfterInstall ==
    WslRun =>
      /\ Trace[1] = [kind |-> "event", stage |-> "checking_wsl", progress |-> 10]
      /\ ~setup_run.machine.wsl =>
            /\ InstallsWslOnce
            /\ setup_run.result =
                  IF setup_run.machine.wslInstalls THEN "RestartRequired" ELSE "install_wsl"
            /\ StopsAfterWslInstall

\* WSL was absent and its install went through
C18_Witness ==
    /\ WslRun
    /\ ~setup_run.machine.wsl
    /\ setup_run.machine.wslInstalls
    /\ setup_run.result = "RestartRequired"
    /\ \E i \in Events : Trace[i].stage = "wsl_installed"

\* install and build commands: their Err is returned with `?`
Installers ==
    {"install_wsl", "install_wsl_python", "install_wsl_petals",
     "install_wsl_petals_client_only", "brew_install_python", "install_petals_macos",
     "build_docker_image"}
\* events that report the failure of the stage under way
FailureReports == {"docker_missing", "docker_not_running"}

\* C19: a workflow halts at its first fatal step: the call returns the error
\* of that step, no probe or install command runs after it and no later
\* stage is announced; a failed install is always fatal; complete (100) is
\* emitted if and only if the call returns Ok.
C19_HaltsAtFirstFatalStep ==
    HasRun =>
      /\ EmitsComplete <=> setup_run.result = "Ok"
      /\ setup_run.result \notin {"Ok", "RestartRequired"} =>
            \E f \in Failures :
               /\ Trace[f].name = setup_run.result
               /\ \A c \in Commands : c <= f
               /\ \A i \in Events : i > f => Trace[i].stage \in FailureReports
               /\ \A g \in Failures : g < f => Trace[g].name \notin Installers
      /\ \A f \in Failures :
            Trace[f].name \in Installers => setup_run.result = Trace[f].name

\* Python was missing and installed, then the Petals install failed: the run
\* ends there with that error
C19_Witness ==
    /\ HasRun
    /\ setup_run.result \in {"install_wsl_petals", "install_petals_macos"}
    /\ ~setup_run.machine.python
    /\ Trace[Len(Trace)].kind = "cmd"
    /\ ~Trace[Len(Trace)].ok

\* C20: stop_petals_seeder does not hold the guard of PetalsState.process
\* while it waits for the worker to exit: whenever a stop is in its wait, the
\* mutex is free for is_petals_seeder_running and start_petals_seeder.
C20_StopWaitsWithoutGuard ==
    \A t \in Threads : At(t, "t_wait") => process_lock # t

\* C21: stop_petals_seeder sends the cooperative signal first and kills the
\* stored child only in its wait loop, after the grace period has run out or
\* try_wait has failed: the step that sends the signal, before any poll,
\* ends no child.
C21_GracefulThenForceful ==
    [][\A t \in Threads : child' # child => ~StopSignal(t)]_vars

\* C22: an error of try_wait never reaches the caller and counts as "still
\* running": a stop_petals_seeder whose wait failed kills the child, goes on
\* to clear the state and answers Ok; an is_petals_seeder_running whose wait
\* failed answers true and leaves handle, model and token as they are.
C22_WaitErrorMeansRunning ==
    [][\A t \in Threads :
         /\ (call[t].wait_err /\ At(t, "t_unset") /\ call'[t] # call[t]) =>
               /\ process' = 0
               /\ At(t, "t_clear")'
         /\ (call[t].wait_err /\ At(t, "t_clear") /\ call'[t] # call[t]) =>
               /\ model_name' = "None" /\ node_token' = "None"
               /\ ret' = [op |-> "stop", val |-> "Ok"]
         /\ (call'[t].wait_err /\ ~call[t].wait_err) =>
               /\ child'[call[t].child] # "running"
               /\ ret' = NoReturn
         /\ (process # 0 /\ child[process] # "running" /\ ret'.op = "is_running"
               /\ ret'.val = "true" /\ RunningPoll(t, "is_running")) =>
               UNCHANGED <<process, model_name, node_token>>]_vars

\* C23: once stop_petals_seeder has answered Ok, and while no worker is
\* stored and no command is under way, the log buffer is and stays empty,
\* whatever the reader threads of the stopped worker do.
C23_LogsStayClearedAfterStop ==
    [][(ret = [op |-> "stop", val |-> "Ok"] /\ process = 0 /\ NoCommandUnderWay) =>
         (seeder_logs = <<>> /\ seeder_logs' = <<>>)]_vars

\* the events of the step under way that are called name and carry payload
CountNew(name, payload) ==
    Cardinality({i \in 1..Len(NewEvents) :
                   NewEvents[i] = [name |-> name, payload |-> payload]})

TracebackOpen(i, j) ==
    /\ i < j
    /\ IsTracebackStart(read_lines[i])
    /\ \A k \in (i + 1)..(j - 1) :
          ~IsTracebackStart(read_lines[k]) /\ ~IsExceptionLine(read_lines[k])
\* the tracebacks read to their end: first line i, exception line j
Terminated ==
    {ij \in (1..Len(read_lines)) \X (1..Len(read_lines)) :
       /\ TracebackOpen(ij[1], ij[2])
       /\ ~IsTracebackStart(read_lines[ij[2]])
       /\ IsExceptionLine(read_lines[ij[2]])}
\* the n-th of them in the order of reading
NthTerminated(n) ==
    CHOOSE ij \in Terminated : Cardinality({x \in Terminated : x[2] < ij[2]}) = n - 1
\* the first lines of a traceback still under way after the last line
Unterminated == {i \in 1..Len(read_lines) : TracebackOpen(i, Len(read_lines) + 1)}
\* the payloads of the petals_error events that begin with the given words
ErrorsNamed(words) ==
    SelectSeq(PayloadsOf(emitted, "petals_error"), LAMBDA p : StartsWith(p, words))

\* C25: the traceback events are, in order, the tracebacks read to their end,
\* each with all its lines from the marker to the first exception line joined
\* in order; a traceback still under way when the stream ends is flushed as
\* one incomplete-error event, and nothing is flushed otherwise.
C25_OneEventPerTraceback ==
    platform = "macos" =>
      /\ Len(ErrorsNamed("Python Error on macOS:")) = Cardinality(Terminated)
      /\ \A n \in 1..Cardinality(Terminated) :
            ErrorsNamed("Python Error on macOS:")[n] =
              PythonError(Join(SubSeq(read_lines, NthTerminated(n)[1], NthTerminated(n)[2])))
      /\ ErrorsNamed("Incomplete Error on macOS:") =
            IF stderr_reader.ended /\ Unterminated # {}
            THEN <<IncompleteError(Join(SubSeq(read_lines, CHOOSE i \in Unterminated : TRUE,
                                               Len(read_lines))))>>
            ELSE <<>>

\* a traceback of three lines read to its end, then one cut by the end of the stream
C25_Witness ==
    /\ platform = "macos"
    /\ stderr_reader.ended
    /\ read_lines = <<"Traceback (most recent call last):",
                      "  File run_petals_seeder.py, line 12, in <module>",
                      "ValueError: bad block index",
                      "Traceback (most recent call last):">>
    /\ Len(ErrorsNamed("Python Error on macOS:")) = 1
    /\ Len(ErrorsNamed("Incomplete Error on macOS:")) = 1

\* the line read by the step under way is a line of a traceback: its
\* marker, or a later line up to and including the exception line
ReadsTracebackLine ==
    /\ read_lines' # read_lines
    /\ \/ IsTracebackStart(read_lines'[Len(read_lines')])
       \/ stderr_reader.in_traceback

\* C26: a stderr line that belongs to a traceback, the exception line that
\* ends it included, makes no import-error and no authentication-error
\* event, so that a traceback makes one petals_error event and no more.
C26_TracebackLinesNotMatched ==
    [][ReadsTracebackLine =>
         /\ \A i \in 1..Len(NewEvents) :
               /\ ~StartsWith(NewEvents[i].payload, "Import Error on macOS:")
               /\ ~StartsWith(NewEvents[i].payload, "Authentication Error:")
         /\ Len(PayloadsOf(NewEvents, "petals_error")) <= 1]_vars

\* C27: on Windows, when stop_petals_seeder answers Ok, the python process
\* inside WSL that belonged to the stopped wrapper is not running any more,
\* also when a lookup command of the stop has failed.
C27_InnerGoneWhenStopReturns ==
    [][\A t \in Threads :
         (/\ platform = "windows"
          /\ At(t, "t_clear")
          /\ call'[t] # call[t]
          /\ ret' = [op |-> "stop", val |-> "Ok"]) =>
            inner'[call[t].child] # "running"]_vars

\* the installer ran, in the build that has it
Installed == setup_run.workflow = "install_wsl_petals" /\ platform = "windows"
\* the commands of the run that look at the distribution without changing it
ProbeNames == {"test_venv", "import_core", "import_extras", "verify_import"}
\* the commands of the run that change the distribution, in order
Repairs ==
    SelectSeq([i \in 1..Len(Trace) |-> Trace[i].name], LAMBDA n : n \notin ProbeNames)
\* what the installer was told about the venv, the core and the extras
VenvPresent == Says(TestVenv(setup_run.machine), "exists")
CoreWorks == Says(ImportCore(setup_run.machine, FALSE), "core_ok")
ExtrasWork == Says(ImportExtras(setup_run.machine, FALSE), "extras_ok")
\* the fresh installation, step by step
FreshInstall == <<"create_venv", "pip_upgrade_pip", "pip_install_petals", "clear_pycache">>
\* the commands of the run before the i-th that failed
FailedBefore(i) == {j \in 1..(i - 1) : ~Trace[j].ok /\ Trace[j].name \notin ProbeNames}

\* C28: install_wsl_petals repairs what is missing: with the venv present, the
\* core importable and the extras not, it installs peft and accelerate and
\* nothing else; with the core not importable it clears the compiled caches
\* and then force-reinstalls; with both importable it installs nothing; with
\* no venv it creates the venv, upgrades pip and installs Petals in this
\* order, each step only after the one before has succeeded.
C28_RepairDecision ==
    Installed =>
      /\ (VenvPresent /\ CoreWorks /\ ~ExtrasWork) =>
            Repairs = <<"pip_install_peft_accelerate">>
      /\ (VenvPresent /\ ~CoreWorks) =>
            /\ Repairs = <<"clear_pycache", "pip_force_reinstall_petals">>
            /\ \A i \in 1..Len(Trace) : Trace[i].name # "import_extras"
      /\ (VenvPresent /\ CoreWorks /\ ExtrasWork) => Repairs = <<>>
      /\ ~VenvPresent =>
            /\ Len(Repairs) \in 1..4
            /\ Repairs = SubSeq(FreshInstall, 1, Len(Repairs))
            /\ \A i \in 1..Len(Trace) :
                  Trace[i].name \in {"pip_upgrade_pip", "pip_install_petals"} =>
                    FailedBefore(i) = {}
            /\ setup_run.result = "Ok" => Len(Repairs) = 4

\* a broken core was repaired: caches cleared, Petals force-reinstalled,
\* the installer answered Ok
C28_Witness ==
    /\ Installed
    /\ setup_run.machine.venv = "exists"
    /\ setup_run.machine.core = "broken"
    /\ ~setup_run.machine.clears
    /\ Repairs = <<"clear_pycache", "pip_force_reinstall_petals">>
    /\ setup_run.result = "Ok"

\* the probe ran, in the build that has it
Probed == setup_run.workflow = "check_wsl_petals" /\ platform = "windows"
\* the sub-probe of this name was run
Ran(name) == \E i \in 1..Len(Trace) : Trace[i].name = name
\* the command answered, and its output without the surrounding blanks is the token
Exactly(answer, token) == answer.ok /\ Trim(answer.out) = token

\* C29: check_wsl_petals runs its sub-probes only as far as they can succeed:
\* no core import when the venv is reported missing, the extras import only
\* when the core import printed exactly core_ok; whenever a sub-probe was
\* skipped the answer is false, and it is true only when both tokens matched.
C29_ProbeShortCircuits ==
    Probed =>
      /\ Exactly(TestVenv(setup_run.machine), "missing") =>
            ~Ran("import_core") /\ ~Ran("import_extras")
      /\ Ran("import_extras") =>
            Ran("import_core") /\ Exactly(ImportCore(setup_run.machine, TRUE), "core_ok")
      /\ (~Ran("import_core") \/ ~Ran("import_extras")) => setup_run.result = "false"
      /\ setup_run.result = "true" <=>
            /\ ~Exactly(TestVenv(setup_run.machine), "missing")
            /\ Exactly(ImportCore(setup_run.machine, TRUE), "core_ok")
            /\ Exactly(ImportExtras(setup_run.machine, TRUE), "extras_ok")

\* the core import printed more than the token: the extras were not looked
\* at although they work, and the probe said false
C29_Witness ==
    /\ Probed
    /\ setup_run.machine.venv = "exists"
    /\ setup_run.machine.core = "noisy"
    /\ setup_run.machine.extras = "works"
    /\ Ran("import_core") /\ ~Ran("import_extras")
    /\ setup_run.result = "false"

\* the run came to the stage of this name
Reached(stage) == \E i \in Events : Trace[i].stage = stage

\* C30: the time sync is not fatal.  A run of setup_macos_environment that
\* comes to the sync_time stage emits "complete" at 100 and returns Ok,
\* whether sntp exits with 0, exits with another status or cannot be run;
\* and a start_petals_seeder that is past its readiness check can spawn the
\* worker after each of the three outcomes.
C30_TimeSyncNotFatal ==
    platform = "macos" =>
      /\ (setup_run.workflow = "setup_macos" /\ Reached("docker_image_ready")) =>
            /\ Reached("sync_time")
            /\ EmitsComplete
            /\ setup_run.result = "Ok"
      /\ \A t \in Threads :
            (At(t, "s_spawn") /\ SetupReady /\ CanSpawn) =>
               \A sntp \in SntpOutcomes :
                  ENABLED (/\ StartSpawn(t)
                           /\ call'[t].pc = "s_commit"
                           /\ call'[t].sntp = sntp
                           /\ child'[call'[t].child] = "running")

\* sntp could not be run in the workflow, which returned Ok; sntp was refused
\* in a start, which has spawned its worker
C30_Witness ==
    /\ platform = "macos"
    /\ setup_run.workflow = "setup_macos"
    /\ setup_run.machine.sntp = "absent"
    /\ EmitsComplete /\ setup_run.result = "Ok"
    /\ \E t \in Threads :
          /\ At(t, "s_commit")
          /\ call[t].sntp = "refused"
          /\ child[call[t].child] = "running"

\* the first command of every attempt, the waits, and the attempts at which
\* the Mac answers one of the methods
Attempts == {i \in Commands : Trace[i].name = "docker info"}
Sleeps == {i \in 1..Len(Trace) : Trace[i].kind = "sleep"}
AnyMethodWorks(a) ==
    a.info \/ a.path # 0 \/ (a.sock /\ (a.sockInfo \/ (a.context /\ a.ps)))
Working ==
    {i \in 1..setup_run.machine.max_retries : AnyMethodWorks(setup_run.machine.answers[i])}

\* C31: check_docker_running_with_retries makes at most max_retries attempts;
\* it answers true at the first attempt in which a method succeeds and makes
\* no attempt after it; it waits delay_seconds between two attempts and not
\* after the last; it answers false exactly when no attempt succeeded.  When
\* check_docker_running() is false, setup_macos_environment returns the
\* daemon error after "docker_not_running" and runs no later stage.
C31_BoundedDaemonCheck ==
    /\ setup_run.workflow = "check_docker_running_with_retries" =>
          /\ Cardinality(Attempts) \in 1..setup_run.machine.max_retries
          /\ setup_run.result \in {"true", "false"}
          /\ setup_run.result = "true" <=> Working # {}
          /\ Working # {} =>
                /\ Cardinality(Attempts) \in Working
                /\ \A i \in Working : Cardinality(Attempts) <= i
          /\ Working = {} => Cardinality(Attempts) = setup_run.machine.max_retries
          /\ Cardinality(Sleeps) = Cardinality(Attempts) - 1
          /\ \A i \in Sleeps :
                /\ Trace[i].seconds = DockerDelay
                /\ i < Len(Trace) /\ (i + 1) \in Attempts
    /\ (setup_run.workflow = "setup_macos" /\ platform = "macos") =>
          IF Working = {}
          THEN /\ setup_run.result = "check_docker_running"
               /\ \A i \in Events : Trace[i].progress <= 35
               /\ \A i \in Commands :
                     Trace[i].name \in {"check_docker_installed",
                                        "check_docker_desktop_running",
                                        "check_docker_running"}
          ELSE Reached("docker_running") /\ setup_run.result = "Ok"

\* the daemon answered at the third attempt only, to `docker ps`: three
\* attempts, two waits, true
C31_Witness ==
    /\ setup_run.workflow = "check_docker_running_with_retries"
    /\ setup_run.machine.max_retries = DockerRetries
    /\ Working = {DockerRetries}
    /\ setup_run.machine.answers[DockerRetries].ps
    /\ Cardinality(Attempts) = 3
    /\ Cardinality(Sleeps) = 2
    /\ setup_run.result = "true"

\* C32: where the supervisor does not inspect the worker's stderr (Windows,
\* Linux), a running worker is never stopped by a write to a full stderr
\* pipe, so it can go on writing its stdout lines.
C32_StderrAlwaysDrained ==
    platform \in {"windows", "linux"} =>
      \A p \in Pids : child[p] = "running" => pipes[p].blocked # "err"

\* C33: no line the supervisor prints in start_petals_seeder or
\* stop_petals_seeder holds a whole node token; a line holds at most the
\* first TokenPrefixLen characters of it.
C33_TokenNeverPrintedInFull ==
    \A line \in printed : \A k \in Tokens :
       Len(k) > TokenPrefixLen => ~Contains(line, k)


\* the place of a mutex in the order process, model_name, node_token, seeder_logs
Rank(m) == CASE m = "process" -> 1 [] m = "model_name" -> 2 [] m = "node_token" -> 3 [] m = "seeder_logs" -> 4

\* thread t asks for a mutex only above every mutex it holds
InOrder(t) == Wants(t) # "none" => \A m \in Holds(t) : Rank(m) < Rank(Wants(t))

\* C34: the commands take the Session State locks in the one order process,
\* model_name, node_token, seeder_logs; no state has every command inside
\* waiting for a lock, and a command that waits for a lock gets it once the
\* holder's steps are taken
C34_NoDeadlock ==
    /\ [](\A t \in Threads : InOrder(t))
    /\ []((\E t \in Threads : locks.rest[t] # <<>>) => \E t \in Threads : CanStep(t))
    /\ \A t \in Threads : \A m \in Mutexes : (Wants(t) = m) ~> (locks.owner[m] = t)

\* a command holding model_name and node_token waits for seeder_logs, held by
\* the other thread, while that thread is about to release it
C34_Witness ==
    \E t \in Threads : \E u \in Threads \ {t} :
       /\ Holds(t) = {"model_name", "node_token"}
       /\ Wants(t) = "seeder_logs"
       /\ locks.owner["seeder_logs"] = u
       /\ ~CanStep(t)

\* the step in which start_petals_seeder of thread t returns a failure of the
\* script lookup, the copy or the spawn
FailsToStart(t) == At(t, "s_spawn") /\ ret'.op = "start" /\ ret'.val \in StartFailures

\* C35: a start that fails after its precondition checks (script missing,
\* copy failure, spawn failure) leaves the handle, the model name, the
\* credential and the log buffer as they were and creates no child, so it is
\* not what makes a later start answer AlreadyRunning: with the handle still
\* None no start answers AlreadyRunning
C35_FailedStartLeavesNothing ==
    /\ [][\A t \in Threads : FailsToStart(t) =>
             /\ UNCHANGED <<process, model_name, node_token, seeder_logs>>
             /\ UNCHANGED <<child, inner>>
             /\ process = 0 => process' = 0]_vars
    /\ [](ret.op = "start" /\ ret.val \in StartFailures /\ process = 0 =>
            \A t \in Threads : \A m \in Models : \A k \in Tokens :
               ~ENABLED (StartCheck(t, m, k) /\ ret'.val = "AlreadyRunning"))

\* a start has just failed at the spawn with nothing stored, and the next
\* start passes the already-running check
C35_Witness ==
    /\ ret = [op |-> "start", val |-> "SpawnFailed"]
    /\ process = 0 /\ model_name = "None" /\ node_token = "None"
    /\ \E t \in Threads : \E m \in Models : \E k \in Tokens :
          ENABLED (StartCheck(t, m, k) /\ call'[t].pc = "s_spawn")

\* the step in which thread t takes the already-running check of a start:
\* it enters the command, or answers at once and stays free
ChecksStart(t) ==
    Free(t) /\ (call'[t].op = "start" \/ (ret'.op = "start" /\ call' = call))

\* C36: start only tests whether a handle is stored and never polls it: while
\* a handle is stored, also that of a worker that has exited on its own,
\* every start answers AlreadyRunning and leaves the handle alone; once
\* is_running, get_info or stop has cleared the handle, start is accepted again
C36_StartNeverPolls ==
    [][\A t \in Threads : ChecksStart(t) =>
          IF process # 0
          THEN ret' = [op |-> "start", val |-> "AlreadyRunning"] /\ UNCHANGED <<process, child>>
          ELSE call'[t].pc = "s_spawn"]_vars

\* C37: whatever the interleaving of two concurrent run_petals_inference
\* calls, once both have returned every inference process still running is
\* the one the stored handle refers to, so at most one is alive and none is
\* left running without a handle
C37_OneInferenceAfterOverlap ==
    NoCommandUnderWay =>
       \A p \in Pids : child[p] = "running" => inference_process = p

\* the step in which run_petals_inference of thread t returns an error of the
\* script lookup or of the spawn
RunFails(t) == At(t, "i_spawn") /\ ret' = [op |-> "run", val |-> "Err"]

\* C38: run_petals_inference supersedes before it validates: when a call
\* returns an error, no handle is stored and the inference process that was
\* stored before the call is dead and reaped
C38_SupersededBeforeError ==
    [][\A t \in Threads : RunFails(t) =>
          /\ inference_process' = 0
          /\ \A p \in Pids : /\ child'[p] \in {"none", "reaped"}
                              /\ inner'[p] # "running"]_vars

\* C39: on Windows stop_petals_seeder answers for every credential that
\* start_petals_seeder accepted, also one shorter than 12 characters, and no
\* mutex of the session is left poisoned
C39_WindowsStopAnswers ==
    platform = "windows" =>
       /\ ret.op = "stop" => ret.val # "panic"
       /\ poisoned = {}

\* C40: when the full-profile WSL workflow has emitted complete and returned
\* success, the library probe check_wsl_petals has answered true in that run,
\* before or after the install step
C40_SuccessMeansProbed ==
    (setup_run.workflow = "setup_wsl" /\ setup_run.result = "Ok") =>
       /\ \E i \in Events : Trace[i].stage = "complete"
       /\ \E i \in 1..Len(Trace) :
             /\ Trace[i].kind = "cmd"
             /\ Trace[i].name = "check_wsl_petals"
             /\ Trace[i].ok

====
